---- MODULE Spec2Model ----
(***************************************************************************)
(* Model of the reliability layer of datadog_platform                      *)
(* (src/src/datadog_platform/core/reliability.py).                         *)
(*                                                                         *)
(* One CircuitBreaker instance is shared by a set of callers.  call() is   *)
(* a coroutine: everything up to the invocation of the wrapped operation   *)
(* (lines 118-137) runs without suspension, the operation itself may       *)
(* suspend (line 142), and _on_success/_on_failure run without suspension  *)
(* once it has finished.  A call is therefore two steps, CallBegin and     *)
(* CallSuccess/CallFailure, and other callers, reset() and the clock may   *)
(* act in between.  A synchronous operation is the run in which the        *)
(* completion step follows CallBegin directly.                             *)
(*                                                                         *)
(* RetryPolicy.execute is modelled as one run of its loop (SpecRetry):     *)
(* the frame rp is "ready" before an attempt, "running" while the          *)
(* operation runs, "sleeping" in asyncio.sleep and "done" once execute()   *)
(* has returned or raised.  SpecWrapped follows two calls of a function    *)
(* wrapped by with_retry, SpecGuarded one execute() whose operation is     *)
(* breaker.call(op), SpecObserved a breaker that is read with get_state()  *)
(* and get_metrics().                                                      *)
(*                                                                         *)
(* monitoring/health.py: SpecHealth applies health check results to one    *)
(* ConnectorHealth; SpecMonitor interleaves start(), stop() and the loop   *)
(* tasks of a ConnectorHealthMonitor.  core/executor.py: SpecSort runs     *)
(* LocalExecutor._topological_sort on the dag of a pipeline.               *)
(*                                                                         *)
(* SpecProbe remembers for each call the stay in HALF_OPEN that admitted   *)
(* it; SpecLive lets callers call for ever, with fairness, a breaker whose *)
(* dependency recovers; SpecDecorated makes decorators with                *)
(* with_circuit_breaker and applies them to functions; SpecCancel          *)
(* interleaves LocalExecutor.execute_dag and LocalExecutor.cancel.         *)
(***************************************************************************)
EXTENDS Integers, Sequences, FiniteSets, TLC

\* ---------------------------------------------------------------- bounds
MaxCalls == 4        \* call() invocations explored per behaviour
MaxTime == 2         \* clock readings explored: 0..MaxTime
NumCallers == 2      \* coroutines sharing the breaker

\* ------------------------------------------------------------- constants
CLOSED == "closed"
OPEN == "open"
HALF_OPEN == "half_open"
CircuitState == {CLOSED, OPEN, HALF_OPEN}

\* last_failure_time: Optional[float]; clock readings are >= 0
None == -1

\* Constructor arguments explored (the constructor accepts any integer and
\* validates nothing).
FailureThresholds == 0..2
TimeoutSeconds == 1..2
HalfOpenMaxCalls == 0..2
SuccessThresholds == 1..2

Callers == 1..NumCallers

VARIABLES
    cb,            \* the CircuitBreaker object (self)
    now,           \* time.time()
    pc,            \* pc[c]: "idle", or "running" while c's operation runs
    outcome,       \* how the call() that finished last ended
    invocations,   \* number of times the wrapped operation was invoked
    rejected,      \* number of call()s that raised CircuitBreakerOpenError
    consecFails,   \* failed operations in a row since the last success
    stayInvoked,   \* operations invoked during the current HALF_OPEN stay
    opResult,      \* what the operation of the call() that finished last did
    callResult,    \* what that call() handed to its caller
    aborted,       \* operations ended by an error that is not an Exception
    rp,            \* one RetryPolicy.execute() run: its config and its frame
    wr,            \* the execute() runs of the calls of a with_retry wrapper
    obs,           \* what get_state() / get_metrics() returned last
    ch,            \* a ConnectorHealthMonitor and the ConnectorHealth it keeps
    mon,           \* a ConnectorHealthMonitor's loop tasks, start() and stop()
    ex,            \* one LocalExecutor._topological_sort() run
    probe,         \* per caller, the breaker state its call was admitted in
    dep,           \* whether the dependency behind the breaker works
    deco,          \* breakers made by with_circuit_breaker, functions wrapped
    run            \* one execution kept by a LocalExecutor, and its cancel()

breakerVars == <<cb, now, pc, outcome, invocations, rejected, consecFails,
                 stayInvoked, opResult, callResult, aborted>>

\* the state of the components modelled further down
moreVars == <<probe, dep, deco, run>>
extVars == <<wr, obs, ch, mon, ex, moreVars>>

vars == <<cb, now, pc, outcome, invocations, rejected, consecFails,
          stayInvoked, opResult, callResult, aborted, rp, extVars>>

\* ------------------------------------------------- results and errors
\* values an operation may return
Results == {"r1", "r2"}

\* error classes the operation may raise that derive from Exception
OpErrorKinds == {"ValueError", "TypeError"}

\* asyncio.CancelledError derives from BaseException, not from Exception
AbortKinds == {"CancelledError"}

\* the class hierarchy: the direct base class of each error class
BaseOf(k) ==
    CASE k = "UnicodeError" -> "ValueError"
      [] k \in {"CancelledError", "Exception"} -> "BaseException"
      [] OTHER -> "Exception"

\* isinstance(error of class k, cls)
RECURSIVE IsInstance(_, _)
IsInstance(k, cls) ==
    IF k = cls THEN TRUE
    ELSE IF k = "BaseException" THEN FALSE
    ELSE IsInstance(BaseOf(k), cls)

NoResult == [how |-> "none", what |-> "none"]
Returned(v) == [how |-> "returned", what |-> v]
Raised(e) == [how |-> "raised", what |-> e]

\* -------------------------------------------------------- CircuitBreaker
\* CircuitBreaker.__init__
NewCircuitBreaker(ft, ts, homc, st) ==
    [ failure_threshold   |-> ft,
      timeout_seconds     |-> ts,
      half_open_max_calls |-> homc,
      success_threshold   |-> st,
      state               |-> CLOSED,
      failure_count       |-> 0,
      success_count       |-> 0,
      last_failure_time   |-> None,
      half_open_calls     |-> 0,
      total_calls         |-> 0,
      total_failures      |-> 0,
      total_successes     |-> 0,
      state_changes       |-> << >> ]

\* _transition_to that forgets to clear the half-open counters
TransitionTo_KeepsHalfOpenCounters(b, new_state, t) ==
    IF b.state # new_state
    THEN LET b1 == [b EXCEPT !.state = new_state,
                             !.state_changes = Append(@, new_state)]
         IN  IF new_state = OPEN
             THEN [b1 EXCEPT !.last_failure_time = t]
             ELSE b1
    ELSE b

\* _transition_to without the check that the state differs
TransitionTo_Unguarded(b, new_state, t) ==
    LET b1 == [b EXCEPT !.state = new_state,
                        !.state_changes = Append(@, new_state)]
    IN  IF new_state = OPEN
        THEN [b1 EXCEPT !.last_failure_time = t]
        ELSE IF new_state = HALF_OPEN
             THEN [b1 EXCEPT !.half_open_calls = 0, !.success_count = 0]
             ELSE b1

\* CircuitBreaker._transition_to at clock reading t
TransitionTo(b, new_state, t) ==
    IF b.state # new_state
    THEN LET b1 == [b EXCEPT !.state = new_state,
                             !.state_changes = Append(@, new_state)]
         IN  IF new_state = OPEN
             THEN [b1 EXCEPT !.last_failure_time = t]
             ELSE IF new_state = HALF_OPEN
                  THEN [b1 EXCEPT !.half_open_calls = 0, !.success_count = 0]
                  ELSE b1
    ELSE b

\* _should_attempt_reset that does not compare with timeout_seconds
ShouldAttemptReset_NoWait(b, t) ==
    b.last_failure_time # None

\* CircuitBreaker._should_attempt_reset at clock reading t
ShouldAttemptReset(b, t) ==
    IF b.last_failure_time = None
    THEN FALSE
    ELSE (t - b.last_failure_time) >= b.timeout_seconds

\* call(), the check "if self.state == OPEN"
\* admitted = FALSE: CircuitBreakerOpenError was raised
RouteOpen(b, t) ==
    IF b.state = OPEN
    THEN IF ShouldAttemptReset(b, t)
         THEN [b |-> TransitionTo(b, HALF_OPEN, t), admitted |-> TRUE]
         ELSE [b |-> b, admitted |-> FALSE]
    ELSE [b |-> b, admitted |-> TRUE]

\* half-open limit compared with > instead of >=
RouteHalfOpen_OffByOne(b, t) ==
    IF b.state = HALF_OPEN
    THEN IF b.half_open_calls > b.half_open_max_calls
         THEN [b |-> TransitionTo(b, OPEN, t), admitted |-> FALSE]
         ELSE [b |-> [b EXCEPT !.half_open_calls = @ + 1], admitted |-> TRUE]
    ELSE [b |-> b, admitted |-> TRUE]

\* half-open probe admitted without being counted
RouteHalfOpen_NoCount(b, t) ==
    IF b.state = HALF_OPEN
    THEN IF b.half_open_calls >= b.half_open_max_calls
         THEN [b |-> TransitionTo(b, OPEN, t), admitted |-> FALSE]
         ELSE [b |-> b, admitted |-> TRUE]
    ELSE [b |-> b, admitted |-> TRUE]

\* call(), the check "if self.state == HALF_OPEN"
RouteHalfOpen(b, t) ==
    IF b.state = HALF_OPEN
    THEN IF b.half_open_calls >= b.half_open_max_calls
         THEN [b |-> TransitionTo(b, OPEN, t), admitted |-> FALSE]
         ELSE [b |-> [b EXCEPT !.half_open_calls = @ + 1], admitted |-> TRUE]
    ELSE [b |-> b, admitted |-> TRUE]

\* call() that counts a call only once it has been admitted
Route_CountsAdmittedOnly(b, t) ==
    LET r1 == RouteOpen(b, t)
        r2 == IF r1.admitted THEN RouteHalfOpen(r1.b, t) ELSE r1
    IN  IF r2.admitted
        THEN [r2 EXCEPT !.b = [r2.b EXCEPT !.total_calls = @ + 1]]
        ELSE r2

\* call() up to the invocation of func
Route(b, t) ==
    LET b0 == [b EXCEPT !.total_calls = @ + 1]
        r1 == RouteOpen(b0, t)
    IN  IF r1.admitted THEN RouteHalfOpen(r1.b, t) ELSE r1

\* _on_success that counts and closes in any state
OnSuccess_AnyState(b, t) ==
    LET b1 == [b EXCEPT !.total_successes = @ + 1, !.failure_count = 0]
        b2 == [b1 EXCEPT !.success_count = @ + 1]
    IN  IF b2.success_count >= b2.success_threshold
        THEN TransitionTo(b2, CLOSED, t)
        ELSE b2

\* _on_success that leaves failure_count alone
OnSuccess_KeepsFailureCount(b, t) ==
    LET b1 == [b EXCEPT !.total_successes = @ + 1]
    IN  IF b1.state = HALF_OPEN
        THEN LET b2 == [b1 EXCEPT !.success_count = @ + 1]
             IN  IF b2.success_count >= b2.success_threshold
                 THEN TransitionTo(b2, CLOSED, t)
                 ELSE b2
        ELSE b1

\* CircuitBreaker._on_success
OnSuccess(b, t) ==
    LET b1 == [b EXCEPT !.total_successes = @ + 1, !.failure_count = 0]
    IN  IF b1.state = HALF_OPEN
        THEN LET b2 == [b1 EXCEPT !.success_count = @ + 1]
             IN  IF b2.success_count >= b2.success_threshold
                 THEN TransitionTo(b2, CLOSED, t)
                 ELSE b2
        ELSE b1

\* _on_failure with the threshold compared with > instead of >=
OnFailure_StrictThreshold(b, t) ==
    LET b1 == [b EXCEPT !.total_failures = @ + 1, !.failure_count = @ + 1]
    IN  IF b1.state = HALF_OPEN
        THEN TransitionTo(b1, OPEN, t)
        ELSE IF b1.failure_count > b1.failure_threshold
             THEN TransitionTo(b1, OPEN, t)
             ELSE b1

\* _on_failure without the HALF_OPEN branch
OnFailure_ThresholdOnly(b, t) ==
    LET b1 == [b EXCEPT !.total_failures = @ + 1, !.failure_count = @ + 1]
    IN  IF b1.failure_count >= b1.failure_threshold
        THEN TransitionTo(b1, OPEN, t)
        ELSE b1

\* _on_failure that stamps last_failure_time on every failure
OnFailure_StampsEveryFailure(b, t) ==
    LET b1 == [b EXCEPT !.total_failures = @ + 1, !.failure_count = @ + 1,
                        !.last_failure_time = t]
    IN  IF b1.state = HALF_OPEN
        THEN TransitionTo(b1, OPEN, t)
        ELSE IF b1.failure_count >= b1.failure_threshold
             THEN TransitionTo(b1, OPEN, t)
             ELSE b1

\* CircuitBreaker._on_failure
OnFailure(b, t) ==
    LET b1 == [b EXCEPT !.total_failures = @ + 1, !.failure_count = @ + 1]
    IN  IF b1.state = HALF_OPEN
        THEN TransitionTo(b1, OPEN, t)
        ELSE IF b1.failure_count >= b1.failure_threshold
             THEN TransitionTo(b1, OPEN, t)
             ELSE b1

\* call() line 147: return result
CallOnReturn(result) == Returned(result)

\* call() that reports every failure as an open circuit
CallOnRaise_AsOpen(e) == Raised("CircuitBreakerOpenError")

\* call() line 160: raise (the error caught at line 148)
CallOnRaise(e) == Raised(e)

\* call() lines 125 and 134: raise CircuitBreakerOpenError(...)
CallOnReject == Raised("CircuitBreakerOpenError")

\* reset that leaves half_open_calls alone
ResetBreaker_KeepsHalfOpenCalls(b) ==
    [b EXCEPT !.state = CLOSED,
              !.failure_count = 0,
              !.success_count = 0,
              !.last_failure_time = None]

\* CircuitBreaker.reset
ResetBreaker(b) ==
    [b EXCEPT !.state = CLOSED,
              !.failure_count = 0,
              !.success_count = 0,
              !.last_failure_time = None,
              !.half_open_calls = 0]

\* get_state that moves an OPEN breaker on once its timeout has elapsed
GetState_Refreshing(b, t) ==
    IF b.state = OPEN /\ ShouldAttemptReset(b, t)
    THEN [b |-> TransitionTo(b, HALF_OPEN, t), value |-> HALF_OPEN]
    ELSE [b |-> b, value |-> b.state]

\* CircuitBreaker.get_state called at clock reading t (it does not read
\* the clock): the breaker it leaves and the value it returns
GetState(b, t) == [b |-> b, value |-> b.state]

\* CircuitBreaker.get_metrics called at clock reading t; success_rate is
\* kept as the pair it is the quotient of
GetMetrics(b, t) ==
    [ b |-> b,
      value |-> [ state             |-> b.state,
                  total_calls       |-> b.total_calls,
                  total_successes   |-> b.total_successes,
                  total_failures    |-> b.total_failures,
                  failure_count     |-> b.failure_count,
                  success_rate      |-> IF b.total_calls > 0
                                        THEN <<b.total_successes, b.total_calls>>
                                        ELSE <<0, 1>>,
                  last_failure_time |-> IF b.last_failure_time # None
                                           /\ b.last_failure_time # 0
                                        THEN b.last_failure_time
                                        ELSE None ] ]

\* ------------------------------------------------ with_circuit_breaker
\* defaults of CircuitBreaker.__init__ that with_circuit_breaker leaves alone
DefaultHalfOpenMaxCalls == 3
DefaultSuccessThreshold == 2

\* with_circuit_breaker(name, failure_threshold, timeout_seconds): the
\* breaker built when the decorator is made (lines 390-394)
WithCircuitBreaker(ft, ts) ==
    NewCircuitBreaker(ft, ts, DefaultHalfOpenMaxCalls, DefaultSuccessThreshold)

\* wrapper that builds a breaker of its own for every call
WrapperBreaker_Fresh(b) ==
    WithCircuitBreaker(b.failure_threshold, b.timeout_seconds)

\* wrapper (lines 398-402): the breaker a call goes through is the one held
\* by the closure and exposed as wrapper.circuit_breaker
WrapperBreaker(b) == b

\* built by with_circuit_breaker
Decorated(b) ==
    /\ b.half_open_max_calls = DefaultHalfOpenMaxCalls
    /\ b.success_threshold = DefaultSuccessThreshold

\* the execute() frame while no retry run is modelled
NoRetry == [pc |-> "unused"]

\* the other components while they are not modelled
Unused == [pc |-> "unused"]
MoreUnused ==
    /\ probe = Unused
    /\ dep = Unused
    /\ deco = Unused
    /\ run = Unused
ExtUnused ==
    /\ wr = Unused
    /\ obs = Unused
    /\ ch = Unused
    /\ mon = Unused
    /\ ex = Unused
    /\ MoreUnused

\* ------------------------------------------------------------------ Init
Init ==
    /\ cb \in { NewCircuitBreaker(ft, ts, homc, st) :
                   ft \in FailureThresholds, ts \in TimeoutSeconds,
                   homc \in HalfOpenMaxCalls, st \in SuccessThresholds }
              \cup
              { WithCircuitBreaker(ft, ts) :
                   ft \in FailureThresholds, ts \in TimeoutSeconds }
    /\ opResult = NoResult
    /\ callResult = NoResult
    /\ aborted = 0
    /\ rp = NoRetry
    /\ ExtUnused
    /\ now = 0
    /\ pc = [c \in Callers |-> "idle"]
    /\ outcome = "none"
    /\ invocations = 0
    /\ rejected = 0
    /\ consecFails = 0
    /\ stayInvoked = 0

\* --------------------------------------------------------------- actions
\* caller c enters call(): lines 118-137, then func is invoked
CallBegin(c) ==
    /\ pc[c] = "idle"
    /\ cb.total_calls < MaxCalls
    /\ LET r == Route(WrapperBreaker(cb), now)
       IN  /\ cb' = r.b
           /\ IF r.admitted
              THEN /\ pc' = [pc EXCEPT ![c] = "running"]
                   /\ outcome' = outcome
                   /\ UNCHANGED <<opResult, callResult>>
                   /\ invocations' = invocations + 1
                   /\ rejected' = rejected
                   /\ stayInvoked' = IF r.b.state = HALF_OPEN
                                     THEN (IF cb.state = HALF_OPEN
                                           THEN stayInvoked + 1 ELSE 1)
                                     ELSE 0
              ELSE /\ pc' = pc
                   /\ outcome' = "CircuitBreakerOpenError"
                   /\ opResult' = NoResult
                   /\ callResult' = CallOnReject
                   /\ invocations' = invocations
                   /\ rejected' = rejected + 1
                   /\ stayInvoked' = 0
    /\ UNCHANGED <<now, consecFails, aborted, rp, extVars>>

\* c's operation returns: _on_success, then call() returns the result
CallSuccess(c) ==
    /\ pc[c] = "running"
    /\ \E v \in Results :
          /\ opResult' = Returned(v)
          /\ callResult' = CallOnReturn(v)
    /\ cb' = OnSuccess(cb, now)
    /\ pc' = [pc EXCEPT ![c] = "idle"]
    /\ outcome' = "returned"
    /\ consecFails' = 0
    /\ stayInvoked' = IF cb'.state = HALF_OPEN THEN stayInvoked ELSE 0
    /\ UNCHANGED <<now, invocations, rejected, aborted, rp, extVars>>

\* c's operation raises an Exception: _on_failure, then call() re-raises
CallFailure(c) ==
    /\ pc[c] = "running"
    /\ \E e \in OpErrorKinds :
          /\ opResult' = Raised(e)
          /\ callResult' = CallOnRaise(e)
    /\ cb' = OnFailure(cb, now)
    /\ pc' = [pc EXCEPT ![c] = "idle"]
    /\ outcome' = "raised"
    /\ consecFails' = consecFails + 1
    /\ stayInvoked' = IF cb'.state = HALF_OPEN THEN stayInvoked ELSE 0
    /\ UNCHANGED <<now, invocations, rejected, aborted, rp, extVars>>

\* c's operation ends with an error that "except Exception" (line 148) does
\* not catch, such as the CancelledError of a cancelled caller: neither
\* _on_success nor _on_failure runs and the error leaves call() as it is
CallAbort(c) ==
    /\ pc[c] = "running"
    /\ \E e \in AbortKinds :
          /\ opResult' = Raised(e)
          /\ callResult' = Raised(e)
    /\ pc' = [pc EXCEPT ![c] = "idle"]
    /\ outcome' = "aborted"
    /\ aborted' = aborted + 1
    /\ UNCHANGED <<cb, now, invocations, rejected, consecFails, stayInvoked, rp, extVars>>

\* reset(): callable at any time by the operator
Reset ==
    /\ cb' = ResetBreaker(cb)
    /\ consecFails' = 0
    /\ stayInvoked' = 0
    /\ UNCHANGED <<now, pc, outcome, invocations, rejected,
                   opResult, callResult, aborted, rp, extVars>>

\* the clock advances
Tick ==
    /\ now < MaxTime
    /\ now' = now + 1
    /\ UNCHANGED <<cb, pc, outcome, invocations, rejected, consecFails,
                   stayInvoked, opResult, callResult, aborted, rp, extVars>>

Next ==
    \/ \E c \in Callers : CallBegin(c)
    \/ \E c \in Callers : CallSuccess(c)
    \/ \E c \in Callers : CallFailure(c)
    \/ \E c \in Callers : CallAbort(c)
    \/ Reset
    \/ Tick

Spec == Init /\ [][Next]_vars

\* --------------------------------------------------------------- typing
TypeOK ==
    /\ cb.state \in CircuitState
    /\ cb.failure_count \in Nat
    /\ cb.success_count \in Nat
    /\ cb.half_open_calls \in Nat
    /\ cb.last_failure_time \in {None} \cup (0..MaxTime)
    /\ cb.total_calls \in 0..MaxCalls
    /\ now \in 0..MaxTime
    /\ pc \in [Callers -> {"idle", "running"}]

\* ============================================================ RetryPolicy
\* bound on RetryConfig.max_attempts explored
MaxAttempts == 4

\* RetryConfig arguments explored (the constructor validates nothing).
\* Delays are in units of 0.5 * initial_delay of the tests, so that the
\* jitter factors 0.5, 1.0 and 1.5 keep them whole.
AttemptLimits == 0..MaxAttempts
InitialDelays == {2}
MaxDelays == {2, 6}
ExponentialBases == {0, 1, 2, 20}
Omitted == [given |-> FALSE, kinds |-> {}]
Given(ks) == [given |-> TRUE, kinds |-> ks]
RetryableArgs == {Omitted, Given({}), Given({"ValueError"})}

\* random.uniform(0.5, 1.5), in halves: the two ends and the middle
JitterHalves == {1, 2, 3}
NoJitter == 2

\* largest float, on the scale of the delays above: a power above it
\* raises OverflowError (sys.float_info.max for Python floats)
FloatMax == 100

\* an error object: its class and the invocation that raised it (0: not
\* raised by the operation)
Error(k, n) == [kind |-> k, id |-> n]
NoError == Error("None", 0)

Min(a, b) == IF a <= b THEN a ELSE b

\* RetryConfig.__init__
NewRetryConfig(m, i, md, b, j, re) ==
    [ max_attempts         |-> m,
      initial_delay        |-> i,
      max_delay            |-> md,
      exponential_base     |-> b,
      jitter               |-> j,
      retryable_exceptions |-> IF re.given /\ re.kinds # {}
                               THEN re.kinds
                               ELSE {"Exception"} ]

\* the except clause that catches everything
IsRetryable_Always(r, k) == TRUE

\* except self.config.retryable_exceptions (line 310) for an error of class k
IsRetryable(r, k) ==
    \E cls \in r.retryable_exceptions : IsInstance(k, cls)

\* b ** n
RECURSIVE Pow(_, _)
Pow(b, n) == IF n = 0 THEN 1 ELSE b * Pow(b, n - 1)

\* float b ** n: raises OverflowError beyond the float range
FloatPow(b, n) ==
    IF Pow(b, n) > FloatMax
    THEN [err |-> "OverflowError", val |-> 0]
    ELSE [err |-> "none", val |-> Pow(b, n)]

\* RetryPolicy._calculate_delay, h the jitter factor drawn (in halves)
CalculateDelay(r, attempt, h) ==
    LET p == FloatPow(r.exponential_base, attempt)
    IN  IF p.err # "none"
        THEN [err |-> p.err, delay |-> 0]
        ELSE LET delay == Min(r.initial_delay * p.val, r.max_delay)
             IN  [err |-> "none",
                  delay |-> IF r.jitter THEN (delay * h) \div 2 ELSE delay]

\* RetryPolicy.execute entered with config cfg (line 301)
NewExecute(cfg) ==
    [ max_attempts         |-> cfg.max_attempts,
      initial_delay        |-> cfg.initial_delay,
      max_delay            |-> cfg.max_delay,
      exponential_base     |-> cfg.exponential_base,
      jitter               |-> cfg.jitter,
      retryable_exceptions |-> cfg.retryable_exceptions,
      pc             |-> "ready",
      attempt        |-> 0,
      last_exception |-> NoError,
      result         |-> NoResult,
      invocations    |-> 0,      \* times the operation was invoked
      sleeps         |-> << >>,  \* the delays slept, in order
      opFailures     |-> 0,      \* times the operation raised
      opLast         |-> NoResult, \* what the latest invocation did
      allRetryable   |-> TRUE,   \* every error so far was a retryable one
      sleepCancelled |-> FALSE ] \* the run was cancelled during a delay

\* lines 325-329, reached when the for loop is exhausted
ExecFallThrough(r) ==
    IF r.last_exception # NoError
    THEN [r EXCEPT !.pc = "done", !.result = Raised(r.last_exception)]
    ELSE [r EXCEPT !.pc = "done", !.result = Raised(Error("RuntimeError", 0))]

\* line 303 with an attempt left: func is invoked (lines 305-308)
ExecInvoke(r) ==
    [r EXCEPT !.pc = "running", !.invocations = @ + 1]

\* line 309: return result
ExecOnReturn(r, v) ==
    [r EXCEPT !.pc = "done", !.result = Returned(v), !.opLast = Returned(v)]

\* lines 310-323: func raised e; h is the jitter factor drawn
ExecOnRaise(r, e, h) ==
    LET r0 == [r EXCEPT !.opFailures = @ + 1, !.opLast = Raised(e),
                        !.allRetryable = @ /\ IsRetryable(r, e.kind)]
    IN  IF ~IsRetryable(r, e.kind)
        THEN [r0 EXCEPT !.pc = "done", !.result = Raised(e)]
        ELSE LET r1 == [r0 EXCEPT !.last_exception = e]
             IN  IF r1.attempt < r1.max_attempts - 1
                 THEN LET d == CalculateDelay(r1, r1.attempt, h)
                      IN  IF d.err # "none"
                          THEN [r1 EXCEPT !.pc = "done",
                                          !.result = Raised(Error(d.err, 0))]
                          ELSE [r1 EXCEPT !.pc = "sleeping",
                                          !.sleeps = Append(@, d.delay)]
                 ELSE ExecFallThrough([r1 EXCEPT !.attempt = @ + 1])

\* a cancelled delay after which the loop goes on
ExecOnSleepCancelled_Continues(r) ==
    [r EXCEPT !.pc = "ready", !.attempt = @ + 1]

\* line 319: asyncio.sleep(delay) raises CancelledError inside the handler
ExecOnSleepCancelled(r) ==
    [r EXCEPT !.pc = "done", !.result = Raised(Error("CancelledError", 0)),
              !.sleepCancelled = TRUE]

\* line 319 returns: next iteration of the for loop
ExecOnSleepDone(r) ==
    [r EXCEPT !.pc = "ready", !.attempt = @ + 1]

\* ------------------------------------------------------- retry actions
InitRetry ==
    /\ rp \in { NewExecute(NewRetryConfig(m, i, md, b, j, re)) :
                   m \in AttemptLimits, i \in InitialDelays, md \in MaxDelays,
                   b \in ExponentialBases, j \in BOOLEAN, re \in RetryableArgs }
    /\ cb = NewCircuitBreaker(1, 1, 1, 1)
    /\ ExtUnused
    /\ now = 0
    /\ pc = [c \in Callers |-> "idle"]
    /\ outcome = "none"
    /\ invocations = 0
    /\ rejected = 0
    /\ consecFails = 0
    /\ stayInvoked = 0
    /\ opResult = NoResult
    /\ callResult = NoResult
    /\ aborted = 0

\* the loop starts an attempt
RetryInvoke ==
    /\ rp.pc = "ready"
    /\ rp.attempt < rp.max_attempts
    /\ rp' = ExecInvoke(rp)
    /\ UNCHANGED <<breakerVars, extVars>>

\* the loop has no attempt to make (max_attempts < 1)
RetryFallThrough ==
    /\ rp.pc = "ready"
    /\ ~(rp.attempt < rp.max_attempts)
    /\ rp' = ExecFallThrough(rp)
    /\ UNCHANGED <<breakerVars, extVars>>

\* the operation returns a value
RetryReturns ==
    /\ rp.pc = "running"
    /\ \E v \in Results : rp' = ExecOnReturn(rp, v)
    /\ UNCHANGED <<breakerVars, extVars>>

\* the operation raises (a cancellation during the operation included)
RetryRaises ==
    /\ rp.pc = "running"
    /\ \E k \in OpErrorKinds \cup AbortKinds :
       \E h \in (IF rp.jitter THEN JitterHalves ELSE {NoJitter}) :
          rp' = ExecOnRaise(rp, Error(k, rp.invocations), h)
    /\ UNCHANGED <<breakerVars, extVars>>

\* the delay is over
RetrySleepDone ==
    /\ rp.pc = "sleeping"
    /\ rp' = ExecOnSleepDone(rp)
    /\ UNCHANGED <<breakerVars, extVars>>

\* execute() is cancelled during the delay
RetrySleepCancelled ==
    /\ rp.pc = "sleeping"
    /\ rp' = ExecOnSleepCancelled(rp)
    /\ UNCHANGED <<breakerVars, extVars>>

NextRetry ==
    \/ RetryInvoke
    \/ RetryFallThrough
    \/ RetryReturns
    \/ RetryRaises
    \/ RetrySleepDone
    \/ RetrySleepCancelled

SpecRetry == InitRetry /\ [][NextRetry]_vars

\* ============================================================= with_retry
\* with_retry(...): the arguments kept by the closure of the decorator.
\* Decorators explored: every attempt limit, a base within and one beyond
\* the float range, the default and a narrowed except clause; jitter off,
\* so that the delays of a run are a function of its attempts.
WithRetry(m, i, md, b, j, re) ==
    [ max_attempts         |-> m,
      initial_delay        |-> i,
      max_delay            |-> md,
      exponential_base     |-> b,
      jitter               |-> j,
      retryable_exceptions |-> re ]

WrapperArgs ==
    { WithRetry(m, 2, 6, b, FALSE, re) :
         m \in AttemptLimits, b \in {2, 20},
         re \in {Omitted, Given({"ValueError"})} }

\* the calls of the wrapped function that are followed
WrapperCalls == {1, 2}

\* a call of the wrapped function that has not been made yet
NotCalled == [pc |-> "notcalled"]

\* wrapper, lines 359-366: config = RetryConfig(...)
WrapperConfig(a) ==
    NewRetryConfig(a.max_attempts, a.initial_delay, a.max_delay,
                   a.exponential_base, a.jitter, a.retryable_exceptions)

\* the attempt counter of the run that is furthest on, 0 if there is none
FurthestAttempt(w) ==
    LET started == {i \in WrapperCalls : w.calls[i].pc # "notcalled"}
    IN  IF started = {} THEN 0
        ELSE CHOOSE a \in {w.calls[i].attempt : i \in started} :
                 \A i \in started : w.calls[i].attempt <= a

\* wrapper whose runs go on from one attempt counter kept by the decorator
WrapperExecute_SharedAttempt(w) ==
    [NewExecute(WrapperConfig(w.args)) EXCEPT !.attempt = FurthestAttempt(w)]

\* wrapper, lines 367-368: policy = RetryPolicy(config), then
\* policy.execute(func, ...) is entered
WrapperExecute(w) == NewExecute(WrapperConfig(w.args))

InitWrapped ==
    /\ wr \in { [args |-> a, calls |-> [i \in WrapperCalls |-> NotCalled]] :
                   a \in WrapperArgs }
    /\ rp = NoRetry
    /\ obs = Unused
    /\ ch = Unused
    /\ mon = Unused
    /\ ex = Unused
    /\ MoreUnused
    /\ cb = NewCircuitBreaker(1, 1, 1, 1)
    /\ now = 0
    /\ pc = [c \in Callers |-> "idle"]
    /\ outcome = "none"
    /\ invocations = 0
    /\ rejected = 0
    /\ consecFails = 0
    /\ stayInvoked = 0
    /\ opResult = NoResult
    /\ callResult = NoResult
    /\ aborted = 0

wrappedFrame == <<breakerVars, rp, obs, ch, mon, ex, moreVars>>

\* the wrapped function is called for the i-th time
WrapCall(i) ==
    /\ wr.calls[i].pc = "notcalled"
    /\ wr' = [wr EXCEPT !.calls[i] = WrapperExecute(wr)]
    /\ UNCHANGED wrappedFrame

\* call i: the loop starts an attempt
WrapInvoke(i) ==
    /\ wr.calls[i].pc = "ready"
    /\ wr.calls[i].attempt < wr.calls[i].max_attempts
    /\ wr' = [wr EXCEPT !.calls[i] = ExecInvoke(@)]
    /\ UNCHANGED wrappedFrame

\* call i: the loop has no attempt to make
WrapFallThrough(i) ==
    /\ wr.calls[i].pc = "ready"
    /\ ~(wr.calls[i].attempt < wr.calls[i].max_attempts)
    /\ wr' = [wr EXCEPT !.calls[i] = ExecFallThrough(@)]
    /\ UNCHANGED wrappedFrame

\* call i: func returns
WrapReturns(i) ==
    /\ wr.calls[i].pc = "running"
    /\ \E v \in Results : wr' = [wr EXCEPT !.calls[i] = ExecOnReturn(@, v)]
    /\ UNCHANGED wrappedFrame

\* call i: func raises
WrapRaises(i) ==
    /\ wr.calls[i].pc = "running"
    /\ \E k \in OpErrorKinds :
       \E h \in (IF wr.calls[i].jitter THEN JitterHalves ELSE {NoJitter}) :
          wr' = [wr EXCEPT !.calls[i] =
                    ExecOnRaise(@, Error(k, wr.calls[i].invocations), h)]
    /\ UNCHANGED wrappedFrame

\* call i: the delay is over
WrapSleepDone(i) ==
    /\ wr.calls[i].pc = "sleeping"
    /\ wr' = [wr EXCEPT !.calls[i] = ExecOnSleepDone(@)]
    /\ UNCHANGED wrappedFrame

\* call i is cancelled during the delay
WrapSleepCancelled(i) ==
    /\ wr.calls[i].pc = "sleeping"
    /\ wr' = [wr EXCEPT !.calls[i] = ExecOnSleepCancelled(@)]
    /\ UNCHANGED wrappedFrame

NextWrapped ==
    \/ \E i \in WrapperCalls : WrapCall(i)
    \/ \E i \in WrapperCalls : WrapInvoke(i)
    \/ \E i \in WrapperCalls : WrapFallThrough(i)
    \/ \E i \in WrapperCalls : WrapReturns(i)
    \/ \E i \in WrapperCalls : WrapRaises(i)
    \/ \E i \in WrapperCalls : WrapSleepDone(i)
    \/ \E i \in WrapperCalls : WrapSleepCancelled(i)

SpecWrapped == InitWrapped /\ [][NextWrapped]_vars

\* ================================================= retry around breaker
\* policy.execute(wrapped_call) with wrapped_call = cb.call(op): every
\* attempt of the retry loop is one call() on the breaker.
GuardedBreakers ==
    { NewCircuitBreaker(ft, 1, 1, st) : ft \in 1..3, st \in SuccessThresholds }

GuardedConfigs ==
    { NewRetryConfig(m, 2, 6, b, FALSE, re) :
         m \in AttemptLimits, b \in {2, 20},
         re \in {Omitted, Given({"ValueError"})} }

InitGuarded ==
    /\ cb \in GuardedBreakers
    /\ rp \in { NewExecute(cfg) : cfg \in GuardedConfigs }
    /\ ExtUnused
    /\ now = 0
    /\ pc = [c \in Callers |-> "idle"]
    /\ outcome = "none"
    /\ invocations = 0
    /\ rejected = 0
    /\ consecFails = 0
    /\ stayInvoked = 0
    /\ opResult = NoResult
    /\ callResult = NoResult
    /\ aborted = 0

guardedFrame == <<pc, outcome, consecFails, stayInvoked, opResult, callResult,
                  extVars>>

\* the loop starts an attempt: call() is entered and either admits the
\* call (op is invoked) or raises CircuitBreakerOpenError into execute()
GuardedInvoke ==
    /\ rp.pc = "ready"
    /\ rp.attempt < rp.max_attempts
    /\ LET r0 == ExecInvoke(rp)
           route == Route(cb, now)
       IN  /\ cb' = route.b
           /\ IF route.admitted
              THEN /\ rp' = r0
                   /\ invocations' = invocations + 1
                   /\ rejected' = rejected
              ELSE /\ rp' = ExecOnRaise(r0,
                              Error(CallOnReject.what, r0.invocations), NoJitter)
                   /\ invocations' = invocations
                   /\ rejected' = rejected + 1
    /\ UNCHANGED <<now, aborted, guardedFrame>>

\* the loop has no attempt to make
GuardedFallThrough ==
    /\ rp.pc = "ready"
    /\ ~(rp.attempt < rp.max_attempts)
    /\ rp' = ExecFallThrough(rp)
    /\ UNCHANGED <<cb, now, invocations, rejected, aborted, guardedFrame>>

\* op returns: _on_success, call() returns, execute() returns
GuardedReturns ==
    /\ rp.pc = "running"
    /\ cb' = OnSuccess(cb, now)
    /\ \E v \in Results : rp' = ExecOnReturn(rp, CallOnReturn(v).what)
    /\ UNCHANGED <<now, invocations, rejected, aborted, guardedFrame>>

\* op raises an Exception: _on_failure, call() re-raises into execute()
GuardedRaises ==
    /\ rp.pc = "running"
    /\ cb' = OnFailure(cb, now)
    /\ \E k \in OpErrorKinds :
          rp' = ExecOnRaise(rp, Error(CallOnRaise(k).what, rp.invocations),
                            NoJitter)
    /\ UNCHANGED <<now, invocations, rejected, aborted, guardedFrame>>

\* op ends with an error that is not an Exception: call() lets it through
\* untouched and so does execute()
GuardedAborts ==
    /\ rp.pc = "running"
    /\ \E k \in AbortKinds :
          rp' = ExecOnRaise(rp, Error(k, rp.invocations), NoJitter)
    /\ aborted' = aborted + 1
    /\ UNCHANGED <<cb, now, invocations, rejected, guardedFrame>>

\* the delay is over
GuardedSleepDone ==
    /\ rp.pc = "sleeping"
    /\ rp' = ExecOnSleepDone(rp)
    /\ UNCHANGED <<cb, now, invocations, rejected, aborted, guardedFrame>>

\* execute() is cancelled during the delay
GuardedSleepCancelled ==
    /\ rp.pc = "sleeping"
    /\ rp' = ExecOnSleepCancelled(rp)
    /\ UNCHANGED <<cb, now, invocations, rejected, aborted, guardedFrame>>

\* the clock advances while execute() runs
GuardedTick ==
    /\ rp.pc # "done"
    /\ now < MaxTime
    /\ now' = now + 1
    /\ UNCHANGED <<cb, rp, invocations, rejected, aborted, guardedFrame>>

NextGuarded ==
    \/ GuardedInvoke
    \/ GuardedFallThrough
    \/ GuardedReturns
    \/ GuardedRaises
    \/ GuardedAborts
    \/ GuardedSleepDone
    \/ GuardedSleepCancelled
    \/ GuardedTick

SpecGuarded == InitGuarded /\ [][NextGuarded]_vars

\* ==================================================== observed breaker
\* One caller uses a breaker while an observer reads it with get_state()
\* and get_metrics().
ObservedBreakers ==
    { NewCircuitBreaker(ft, 1, homc, 1) : ft \in 1..2, homc \in 0..1 }

\* nothing has been read yet
NotObserved == [by |-> "none", value |-> "none"]

InitObserved ==
    /\ cb \in ObservedBreakers
    /\ obs = NotObserved
    /\ rp = NoRetry
    /\ wr = Unused
    /\ ch = Unused
    /\ mon = Unused
    /\ ex = Unused
    /\ MoreUnused
    /\ now = 0
    /\ pc = [c \in Callers |-> "idle"]
    /\ outcome = "none"
    /\ invocations = 0
    /\ rejected = 0
    /\ consecFails = 0
    /\ stayInvoked = 0
    /\ opResult = NoResult
    /\ callResult = NoResult
    /\ aborted = 0

\* get_state() is called
ObserveState ==
    /\ LET r == GetState(cb, now)
       IN  /\ cb' = r.b
           /\ obs' = [by |-> "get_state", value |-> r.value]
    /\ UNCHANGED <<now, pc, outcome, invocations, rejected, consecFails,
                   stayInvoked, opResult, callResult, aborted, rp,
                   wr, ch, mon, ex, moreVars>>

\* get_metrics() is called
ObserveMetrics ==
    /\ LET r == GetMetrics(cb, now)
       IN  /\ cb' = r.b
           /\ obs' = [by |-> "get_metrics", value |-> r.value]
    /\ UNCHANGED <<now, pc, outcome, invocations, rejected, consecFails,
                   stayInvoked, opResult, callResult, aborted, rp,
                   wr, ch, mon, ex, moreVars>>

NextObserved ==
    \/ CallBegin(1)
    \/ CallSuccess(1)
    \/ CallFailure(1)
    \/ CallAbort(1)
    \/ Reset
    \/ Tick
    \/ ObserveState
    \/ ObserveMetrics

SpecObserved == InitObserved /\ [][NextObserved]_vars

\* ======================================================= ConnectorHealth
\* (src/src/datadog_platform/monitoring/health.py)
\* bound on the health checks explored per behaviour
MaxChecks == 6

HEALTHY == "healthy"
DEGRADED == "degraded"
UNHEALTHY == "unhealthy"
UNKNOWN == "unknown"
HealthStatus == {HEALTHY, DEGRADED, UNHEALTHY, UNKNOWN}

\* consecutive failures at which update_from_result reports UNHEALTHY
UnhealthyAfter == 5

\* default of update_from_result's max_history
DefaultMaxHistory == 100

\* defaults of ConnectorHealthMonitor.__init__
DefaultUnhealthyThreshold == 3
DefaultHealthyThreshold == 2

\* the monitors explored: the defaults, and thresholds 5 and 1
MonitorThresholds ==
    { <<DefaultUnhealthyThreshold, DefaultHealthyThreshold>>, <<5, 1>> }

\* HealthCheckResult: status and error (timestamp and latency feed only
\* last_check_time and average_latency_ms, which no branch reads; they
\* are left out)
HealthCheckResult(status, error) == [status |-> status, error |-> error]

\* ConnectorHealthMonitor.__init__ followed by register_connector of one
\* connector: the thresholds kept by the monitor and the ConnectorHealth
\* created for the connector
NewConnectorHealth(u, h) ==
    [ unhealthy_threshold   |-> u,
      healthy_threshold     |-> h,
      current_status        |-> UNKNOWN,
      consecutive_failures  |-> 0,
      consecutive_successes |-> 0,
      total_checks          |-> 0,
      total_failures        |-> 0,
      total_successes       |-> 0,
      last_error            |-> "None",
      uptime_percentage     |-> 100,
      check_history         |-> << >> ]

\* the tail of update_from_result: uptime (whole percent) and history
UpdateTail(c, result, max_history) ==
    LET up == IF c.total_checks > 0
              THEN (c.total_successes * 100) \div c.total_checks
              ELSE 0
        hist == Append(c.check_history, result.status)
    IN  [c EXCEPT !.uptime_percentage = up,
                  !.check_history = IF Len(hist) > max_history
                                    THEN Tail(hist) ELSE hist]

\* update_from_result with the limit compared with > instead of >=
UpdateFromResult_StrictLimit(c, result, max_history) ==
    LET c0 == [c EXCEPT !.total_checks = @ + 1]
        c1 == IF result.status = HEALTHY
              THEN [c0 EXCEPT !.total_successes = @ + 1,
                              !.consecutive_successes = @ + 1,
                              !.consecutive_failures = 0,
                              !.current_status = HEALTHY]
              ELSE LET f == [c0 EXCEPT !.total_failures = @ + 1,
                                       !.consecutive_failures = @ + 1,
                                       !.consecutive_successes = 0,
                                       !.last_error = result.error]
                   IN  IF f.consecutive_failures > UnhealthyAfter
                       THEN [f EXCEPT !.current_status = UNHEALTHY]
                       ELSE [f EXCEPT !.current_status = DEGRADED]
    IN  UpdateTail(c1, result, max_history)

\* ConnectorHealth.update_from_result
UpdateFromResult(c, result, max_history) ==
    LET c0 == [c EXCEPT !.total_checks = @ + 1]
        c1 == IF result.status = HEALTHY
              THEN [c0 EXCEPT !.total_successes = @ + 1,
                              !.consecutive_successes = @ + 1,
                              !.consecutive_failures = 0,
                              !.current_status = HEALTHY]
              ELSE LET f == [c0 EXCEPT !.total_failures = @ + 1,
                                       !.consecutive_failures = @ + 1,
                                       !.consecutive_successes = 0,
                                       !.last_error = result.error]
                   IN  IF f.consecutive_failures >= UnhealthyAfter
                       THEN [f EXCEPT !.current_status = UNHEALTHY]
                       ELSE [f EXCEPT !.current_status = DEGRADED]
    IN  UpdateTail(c1, result, max_history)

\* what validate_connection() may do within check_connector_health
ValidationOutcomes == {"true", "false", "timeout", "error"}

\* ConnectorHealthMonitor.check_connector_health for a registered connector
CheckConnectorHealth(v) ==
    CASE v = "true"    -> HealthCheckResult(HEALTHY, "None")
      [] v = "false"   -> HealthCheckResult(UNHEALTHY, "Connection validation failed")
      [] v = "timeout" -> HealthCheckResult(UNHEALTHY, "Health check timeout")
      [] OTHER         -> HealthCheckResult(UNHEALTHY, "str(e)")

InitHealth ==
    /\ ch \in { NewConnectorHealth(t[1], t[2]) : t \in MonitorThresholds }
    /\ rp = NoRetry
    /\ wr = Unused
    /\ obs = Unused
    /\ mon = Unused
    /\ ex = Unused
    /\ MoreUnused
    /\ cb = NewCircuitBreaker(1, 1, 1, 1)
    /\ now = 0
    /\ pc = [c \in Callers |-> "idle"]
    /\ outcome = "none"
    /\ invocations = 0
    /\ rejected = 0
    /\ consecFails = 0
    /\ stayInvoked = 0
    /\ opResult = NoResult
    /\ callResult = NoResult
    /\ aborted = 0

healthFrame == <<breakerVars, rp, wr, obs, mon, ex, moreVars>>

\* update_from_result called directly, with any status and a history limit
UpdateHealth ==
    /\ ch.total_checks < MaxChecks
    /\ \E st \in HealthStatus, mh \in {1, DefaultMaxHistory} :
          ch' = UpdateFromResult(ch,
                   HealthCheckResult(st, IF st = HEALTHY THEN "None" ELSE "error"),
                   mh)
    /\ UNCHANGED healthFrame

\* check_all_connectors: the connector is checked and its ConnectorHealth
\* updated from the result (lines 275-293)
CheckAllConnectors ==
    /\ ch.total_checks < MaxChecks
    /\ \E v \in ValidationOutcomes :
          ch' = UpdateFromResult(ch, CheckConnectorHealth(v), DefaultMaxHistory)
    /\ UNCHANGED healthFrame

NextHealth ==
    \/ UpdateHealth
    \/ CheckAllConnectors

SpecHealth == InitHealth /\ [][NextHealth]_vars

\* ================================================ ConnectorHealthMonitor
\* start(), stop() and the loop tasks they create.  start() has no await
\* and is one step; stop() awaits the cancelled task (line 332) and is two
\* steps, with other coroutines free to run in between; a loop task runs
\* from one await to the next.
\* bound on the loop tasks created per behaviour
MaxLoops == 3

\* bound on the rounds of checks counted per behaviour
MaxRounds == 2

Loops == 1..MaxLoops

\* the coroutines that call start() and stop()
Operators == {1, 2}

\* ConnectorHealthMonitor.__init__ (lines 162-163); task[t] is "absent"
\* until start() creates loop t, then "created", "waiting" (suspended in
\* the try block, lines 303-304) and "done"
NewMonitor ==
    [ is_running      |-> FALSE,
      monitoring_task |-> None,
      task            |-> [t \in Loops |-> "absent"],
      cancelled       |-> {},     \* tasks with a cancellation pending
      awaiting        |-> [o \in Operators |-> None],  \* stop() at line 332
      rounds          |-> 0 ]     \* check_all_connectors() calls made

\* the loop tasks that exist and have not finished
LiveLoops(m) == {t \in Loops : m.task[t] \in {"created", "waiting"}}

\* start() (lines 315-320); t is the task create_task() would make
MonitorStart(m, t) ==
    IF m.is_running
    THEN m
    ELSE [m EXCEPT !.is_running = TRUE,
                   !.monitoring_task = t,
                   !.task[t] = "created"]

\* stop() called by o, up to its await (lines 325-332); awaiting a task
\* that has finished does not suspend
MonitorStopBegin(m, o) ==
    IF ~m.is_running
    THEN m
    ELSE LET m1 == [m EXCEPT !.is_running = FALSE]
         IN  IF m1.monitoring_task # None
             THEN IF m1.task[m1.monitoring_task] = "done"
                  THEN [m1 EXCEPT !.monitoring_task = None]
                  ELSE [m1 EXCEPT !.cancelled = @ \cup {m1.monitoring_task},
                                  !.awaiting[o] = m1.monitoring_task]
             ELSE m1

\* stop() resumed once the awaited task has finished (lines 333-336)
MonitorStopEnd(m, o) ==
    [m EXCEPT !.monitoring_task = None, !.awaiting[o] = None]

\* _monitoring_loop at the test of "while self.is_running" (line 301):
\* another round of checks (lines 303-304), or the end of the loop
LoopTest(m, t) ==
    IF m.is_running
    THEN [m EXCEPT !.task[t] = "waiting", !.rounds = @ + 1]
    ELSE [m EXCEPT !.task[t] = "done"]

\* the cancellation reaches the task: CancelledError before its first
\* step, or at the await it is suspended in (lines 305-306)
LoopCancelled(m, t) ==
    [m EXCEPT !.task[t] = "done", !.cancelled = @ \ {t}]

InitMonitor ==
    /\ mon = NewMonitor
    /\ rp = NoRetry
    /\ wr = Unused
    /\ obs = Unused
    /\ ch = Unused
    /\ ex = Unused
    /\ MoreUnused
    /\ cb = NewCircuitBreaker(1, 1, 1, 1)
    /\ now = 0
    /\ pc = [c \in Callers |-> "idle"]
    /\ outcome = "none"
    /\ invocations = 0
    /\ rejected = 0
    /\ consecFails = 0
    /\ stayInvoked = 0
    /\ opResult = NoResult
    /\ callResult = NoResult
    /\ aborted = 0

monitorFrame == <<breakerVars, rp, wr, obs, ch, ex, moreVars>>

\* operator o calls start()
Start(o) ==
    /\ mon.awaiting[o] = None
    /\ \E t \in Loops :
          /\ mon.task[t] = "absent"
          /\ \A u \in 1..(t - 1) : mon.task[u] # "absent"
          /\ mon' = MonitorStart(mon, t)
    /\ UNCHANGED monitorFrame

\* operator o calls stop()
StopBegin(o) ==
    /\ mon.awaiting[o] = None
    /\ mon' = MonitorStopBegin(mon, o)
    /\ UNCHANGED monitorFrame

\* the task o's stop() awaits has finished
StopEnd(o) ==
    /\ mon.awaiting[o] # None
    /\ mon.task[mon.awaiting[o]] = "done"
    /\ mon' = MonitorStopEnd(mon, o)
    /\ UNCHANGED monitorFrame

\* loop task t runs: its first step, or its sleep is over
LoopRuns(t) ==
    /\ mon.task[t] \in {"created", "waiting"}
    /\ t \notin mon.cancelled
    /\ mon.rounds < MaxRounds \/ ~mon.is_running
    /\ mon' = LoopTest(mon, t)
    /\ UNCHANGED monitorFrame

\* loop task t is resumed with its cancellation
LoopEnds(t) ==
    /\ mon.task[t] \in {"created", "waiting"}
    /\ t \in mon.cancelled
    /\ mon' = LoopCancelled(mon, t)
    /\ UNCHANGED monitorFrame

NextMonitor ==
    \/ \E o \in Operators : Start(o)
    \/ \E o \in Operators : StopBegin(o)
    \/ \E o \in Operators : StopEnd(o)
    \/ \E t \in Loops : LoopRuns(t)
    \/ \E t \in Loops : LoopEnds(t)

SpecMonitor == InitMonitor /\ [][NextMonitor]_vars

\* ========================================================= LocalExecutor
\* (src/src/datadog_platform/core/executor.py, core/pipeline.py)
\* bound on the tasks of a pipeline
MaxTasks == 3

\* a Task of a Pipeline: its id and the ids it depends on
Task(id, deps) == [task_id |-> id, dependencies |-> deps]

\* the lists without repetition over the set S
RECURSIVE ListsOver(_)
ListsOver(S) ==
    {<< >>} \cup UNION { { <<x>> \o l : l \in ListsOver(S \ {x}) } : x \in S }

\* the dependency lists for the first k tasks of the order o, each task
\* depending on earlier tasks of o only
RECURSIVE DepsAlong(_, _)
DepsAlong(o, k) ==
    IF k = 0
    THEN { << >> }
    ELSE { [t \in {o[j] : j \in 1..k} |->
               IF t = o[k] THEN l ELSE f[t]] :
             f \in DepsAlong(o, k - 1),
             l \in ListsOver({o[j] : j \in 1..(k - 1)}) }

\* the task lists of the acyclic pipelines with n tasks: there is an order
\* of the tasks in which every task depends on earlier ones only
AcyclicTaskLists(n) ==
    UNION { { [i \in 1..n |-> Task(i, d[i])] : d \in DepsAlong(o, n) } :
            o \in { l \in ListsOver(1..n) : Len(l) = n } }

\* Pipeline.build_dag: the dict, as the list of its items in insertion
\* order
BuildDag(tasks) ==
    [i \in 1..Len(tasks) |-> <<tasks[i].task_id, tasks[i].dependencies>>]

\* dag.get(node, [])
DagGet(dag, node) ==
    IF \E i \in 1..Len(dag) : dag[i][1] = node
    THEN dag[CHOOSE i \in 1..Len(dag) : dag[i][1] = node][2]
    ELSE << >>

\* list(reversed(s))
Reversed(s) == [i \in 1..Len(s) |-> s[Len(s) + 1 - i]]

\* _topological_sort entered with dag (lines 161-162); frames is the call
\* stack of dfs, each frame a node and the position reached in its
\* neighbour list; key is the position of the for loop of line 171
NewSort(dag) ==
    [ pc      |-> "sorting",
      dag     |-> dag,
      visited |-> {},
      stack   |-> << >>,
      frames  |-> << >>,
      key     |-> 1,
      order   |-> << >> ]

\* dfs(node) is entered (line 165)
DfsEnter(x, node) ==
    [x EXCEPT !.visited = @ \cup {node},
              !.frames = Append(@, [node |-> node, at |-> 1])]

\* lines 171-173: the next key of the dag
SortNextKey(x) ==
    LET node == x.dag[x.key][1]
        x1 == [x EXCEPT !.key = @ + 1]
    IN  IF node \notin x.visited THEN DfsEnter(x1, node) ELSE x1

\* lines 166-169: one step of the innermost dfs call
DfsStep(x) ==
    LET top == x.frames[Len(x.frames)]
        nbrs == DagGet(x.dag, top.node)
    IN  IF top.at <= Len(nbrs)
        THEN LET x1 == [x EXCEPT !.frames[Len(x.frames)].at = @ + 1]
                 nb == nbrs[top.at]
             IN  IF nb \notin x.visited THEN DfsEnter(x1, nb) ELSE x1
        ELSE [x EXCEPT !.stack = Append(@, top.node),
                       !.frames = SubSeq(@, 1, Len(@) - 1)]

\* line 175
SortReturn(x) ==
    [x EXCEPT !.pc = "done", !.order = Reversed(x.stack)]

InitSort ==
    /\ ex \in { NewSort(BuildDag(tasks)) :
                   tasks \in UNION { AcyclicTaskLists(n) : n \in 1..MaxTasks } }
    /\ rp = NoRetry
    /\ wr = Unused
    /\ obs = Unused
    /\ ch = Unused
    /\ mon = Unused
    /\ MoreUnused
    /\ cb = NewCircuitBreaker(1, 1, 1, 1)
    /\ now = 0
    /\ pc = [c \in Callers |-> "idle"]
    /\ outcome = "none"
    /\ invocations = 0
    /\ rejected = 0
    /\ consecFails = 0
    /\ stayInvoked = 0
    /\ opResult = NoResult
    /\ callResult = NoResult
    /\ aborted = 0

sortFrame == <<breakerVars, rp, wr, obs, ch, mon, moreVars>>

\* the for loop of line 171 takes the next key
SortOuter ==
    /\ ex.pc = "sorting"
    /\ ex.frames = << >>
    /\ ex.key <= Len(ex.dag)
    /\ ex' = SortNextKey(ex)
    /\ UNCHANGED sortFrame

\* the innermost dfs call goes on
SortDfs ==
    /\ ex.pc = "sorting"
    /\ ex.frames # << >>
    /\ ex' = DfsStep(ex)
    /\ UNCHANGED sortFrame

\* the for loop is over: the order is returned
SortDone ==
    /\ ex.pc = "sorting"
    /\ ex.frames = << >>
    /\ ex.key > Len(ex.dag)
    /\ ex' = SortReturn(ex)
    /\ UNCHANGED sortFrame

NextSort ==
    \/ SortOuter
    \/ SortDfs
    \/ SortDone

SpecSort == InitSort /\ [][NextSort]_vars

\* ====================================================== admitted probes
\* SpecProbe: callers share one breaker, and for each call that is under
\* way the model remembers the stay in HALF_OPEN that admitted it.  A stay
\* is named by the length of state_changes at its start: _transition_to
\* appends one entry each time a stay begins.
ProbeBreakers ==
    { NewCircuitBreaker(ft, 1, homc, st) :
         ft \in 1..2, homc \in 1..2, st \in SuccessThresholds }

\* the stay an operation admitted by call() in breaker state b belongs to;
\* 0 when it was admitted while CLOSED
StayOf(b) == IF b.state = HALF_OPEN THEN Len(b.state_changes) ELSE 0

\* probe.admitted[c]: the stay c's running operation was admitted in
\* probe.fresh / probe.stale: operations that succeeded during the latest
\* stay and were admitted in that stay / before it
NoProbes ==
    [ admitted |-> [c \in Callers |-> None], fresh |-> 0, stale |-> 0 ]

InitProbe ==
    /\ cb \in ProbeBreakers
    /\ probe = NoProbes
    /\ rp = NoRetry
    /\ wr = Unused
    /\ obs = Unused
    /\ ch = Unused
    /\ mon = Unused
    /\ ex = Unused
    /\ dep = Unused
    /\ deco = Unused
    /\ run = Unused
    /\ now = 0
    /\ pc = [c \in Callers |-> "idle"]
    /\ outcome = "none"
    /\ invocations = 0
    /\ rejected = 0
    /\ consecFails = 0
    /\ stayInvoked = 0
    /\ opResult = NoResult
    /\ callResult = NoResult
    /\ aborted = 0

probeFrame == <<outcome, invocations, rejected, consecFails, stayInvoked,
                opResult, callResult, aborted, rp, wr, obs, ch, mon, ex,
                dep, deco, run>>

\* caller c enters call(): lines 118-137, then func is invoked
ProbeBegin(c) ==
    /\ pc[c] = "idle"
    /\ cb.total_calls < MaxCalls
    /\ LET r == Route(cb, now)
           began == r.b.state = HALF_OPEN /\ StayOf(r.b) # StayOf(cb)
           p0 == IF began THEN [probe EXCEPT !.fresh = 0, !.stale = 0]
                 ELSE probe
       IN  /\ cb' = r.b
           /\ IF r.admitted
              THEN /\ pc' = [pc EXCEPT ![c] = "running"]
                   /\ probe' = [p0 EXCEPT !.admitted[c] = StayOf(r.b)]
              ELSE /\ pc' = pc
                   /\ probe' = p0
    /\ UNCHANGED <<now, probeFrame>>

\* c's operation returns: _on_success
ProbeSuccess(c) ==
    /\ pc[c] = "running"
    /\ cb' = OnSuccess(cb, now)
    /\ pc' = [pc EXCEPT ![c] = "idle"]
    /\ probe' = IF cb.state # HALF_OPEN
                THEN [probe EXCEPT !.admitted[c] = None]
                ELSE IF probe.admitted[c] = StayOf(cb)
                     THEN [probe EXCEPT !.admitted[c] = None, !.fresh = @ + 1]
                     ELSE [probe EXCEPT !.admitted[c] = None, !.stale = @ + 1]
    /\ UNCHANGED <<now, probeFrame>>

\* c's operation raises an Exception: _on_failure
ProbeFailure(c) ==
    /\ pc[c] = "running"
    /\ cb' = OnFailure(cb, now)
    /\ pc' = [pc EXCEPT ![c] = "idle"]
    /\ probe' = [probe EXCEPT !.admitted[c] = None]
    /\ UNCHANGED <<now, probeFrame>>

\* c's operation ends with an error that is not an Exception
ProbeAbort(c) ==
    /\ pc[c] = "running"
    /\ pc' = [pc EXCEPT ![c] = "idle"]
    /\ probe' = [probe EXCEPT !.admitted[c] = None]
    /\ UNCHANGED <<cb, now, probeFrame>>

\* the clock advances
ProbeTick ==
    /\ now < MaxTime
    /\ now' = now + 1
    /\ UNCHANGED <<cb, pc, probe, probeFrame>>

NextProbe ==
    \/ \E c \in Callers : ProbeBegin(c)
    \/ \E c \in Callers : ProbeSuccess(c)
    \/ \E c \in Callers : ProbeFailure(c)
    \/ \E c \in Callers : ProbeAbort(c)
    \/ ProbeTick

SpecProbe == InitProbe /\ [][NextProbe]_vars

\* ==================================================== recovering breaker
\* SpecLive: callers keep calling a breaker whose dependency is flaky at
\* first and works from some moment on (dep.up).  Nothing bounds the number
\* of calls, so the state is kept finite by what call() can tell apart:
\* the totals and state_changes are only ever written, and the clock is
\* only read as time.time() - last_failure_time and compared with
\* timeout_seconds.
LiveBreakers ==
    { NewCircuitBreaker(ft, ts, homc, st) :
         ft \in 1..2, ts \in TimeoutSeconds, homc \in 1..2,
         st \in SuccessThresholds }

\* the breaker and the clock reading with the write-only fields dropped and
\* the clock counted from last_failure_time
LiveView(b, t) ==
    [ b   |-> [b EXCEPT !.total_calls = 0,
                        !.total_failures = 0,
                        !.total_successes = 0,
                        !.state_changes = << >>,
                        !.last_failure_time = IF @ = None THEN None ELSE 0],
      now |-> IF b.last_failure_time = None THEN 0
              ELSE t - b.last_failure_time ]

\* dep.up: every operation that completes from now on succeeds
\* dep.overlapped: some call() was entered while another was under way
InitLive ==
    /\ cb \in LiveBreakers
    /\ dep = [up |-> FALSE, overlapped |-> FALSE]
    /\ rp = NoRetry
    /\ wr = Unused
    /\ obs = Unused
    /\ ch = Unused
    /\ mon = Unused
    /\ ex = Unused
    /\ probe = Unused
    /\ deco = Unused
    /\ run = Unused
    /\ now = 0
    /\ pc = [c \in Callers |-> "idle"]
    /\ outcome = "none"
    /\ invocations = 0
    /\ rejected = 0
    /\ consecFails = 0
    /\ stayInvoked = 0
    /\ opResult = NoResult
    /\ callResult = NoResult
    /\ aborted = 0

liveFrame == <<outcome, invocations, rejected, consecFails, stayInvoked,
               opResult, callResult, aborted, rp, wr, obs, ch, mon, ex,
               probe, deco, run>>

\* caller c enters call(): lines 118-137, then func is invoked
LiveBegin(c) ==
    /\ pc[c] = "idle"
    /\ LET r == Route(cb, now)
           v == LiveView(r.b, now)
       IN  /\ cb' = v.b
           /\ now' = v.now
           /\ pc' = IF r.admitted THEN [pc EXCEPT ![c] = "running"] ELSE pc
    /\ dep' = [dep EXCEPT !.overlapped =
                 @ \/ \E d \in Callers : pc[d] = "running"]
    /\ UNCHANGED liveFrame

\* c's operation returns: _on_success
LiveSuccess(c) ==
    /\ pc[c] = "running"
    /\ LET v == LiveView(OnSuccess(cb, now), now)
       IN  /\ cb' = v.b
           /\ now' = v.now
    /\ pc' = [pc EXCEPT ![c] = "idle"]
    /\ UNCHANGED <<dep, liveFrame>>

\* c's operation raises an Exception while the dependency is flaky:
\* _on_failure
LiveFailure(c) ==
    /\ pc[c] = "running"
    /\ ~dep.up
    /\ cb.failure_count < MaxCalls
    /\ LET v == LiveView(OnFailure(cb, now), now)
       IN  /\ cb' = v.b
           /\ now' = v.now
    /\ pc' = [pc EXCEPT ![c] = "idle"]
    /\ UNCHANGED <<dep, liveFrame>>

\* the dependency recovers for good
Heal ==
    /\ ~dep.up
    /\ dep' = [dep EXCEPT !.up = TRUE]
    /\ UNCHANGED <<cb, now, pc, liveFrame>>

\* the clock advances; once timeout_seconds have passed since
\* last_failure_time more time makes no difference to call()
LiveTick ==
    /\ cb.last_failure_time # None
    /\ now - cb.last_failure_time < cb.timeout_seconds
    /\ now' = now + 1
    /\ UNCHANGED <<cb, pc, dep, liveFrame>>

NextLive ==
    \/ \E c \in Callers : LiveBegin(c)
    \/ \E c \in Callers : LiveSuccess(c)
    \/ \E c \in Callers : LiveFailure(c)
    \/ Heal
    \/ LiveTick

\* callers keep calling, operations finish, time passes
SpecLive ==
    /\ InitLive
    /\ [][NextLive]_vars
    /\ WF_vars(\E c \in Callers : LiveBegin(c))
    /\ \A c \in Callers : WF_vars(LiveSuccess(c) \/ LiveFailure(c))
    /\ WF_vars(LiveTick)

\* ================================================== decorated functions
\* SpecDecorated: with_circuit_breaker(...) is called to make decorators,
\* the decorators are applied to functions, the wrappers are called.
\* deco.breakers   the CircuitBreaker objects that exist
\* deco.decorators per decorator made: its name and the breaker its closure
\*                 holds
\* deco.uses[f]    the breaker wrapper f calls (wrapper.circuit_breaker),
\*                 0 while f is not decorated
\* deco.by[f]      the decorator that was applied to f
\* deco.calls      calls of wrappers so far; deco.failed[f] those in which
\*                 f raised; deco.last the latest call
MaxDecorators == 2

Functions == {"f", "g"}
BreakerNames == {"svc"}

NoDecorators ==
    [ breakers   |-> << >>,
      decorators |-> << >>,
      uses       |-> [f \in Functions |-> 0],
      by         |-> [f \in Functions |-> 0],
      calls      |-> 0,
      failed     |-> [f \in Functions |-> 0],
      last       |-> [f |-> "none", admitted |-> FALSE] ]

\* with_circuit_breaker(name, failure_threshold, timeout_seconds), lines
\* 390-405: builds the breaker and returns the decorator closed over it
MakeDecorator(s, name, ft, ts) ==
    [s EXCEPT !.breakers = Append(@, WithCircuitBreaker(ft, ts)),
              !.decorators = Append(@, [name |-> name,
                                        breaker |-> Len(s.breakers) + 1])]

\* a decorator that builds a breaker for each function it is applied to
ApplyDecorator_OwnBreaker(s, d, f) ==
    LET b == s.breakers[s.decorators[d].breaker]
    IN  [s EXCEPT !.breakers = Append(@, WithCircuitBreaker(
                                   b.failure_threshold, b.timeout_seconds)),
                  !.uses[f] = Len(s.breakers) + 1,
                  !.by[f] = d]

\* decorator(func), lines 396-403: the wrapper calls the breaker of the
\* closure, which is also attached as wrapper.circuit_breaker
ApplyDecorator(s, d, f) ==
    [s EXCEPT !.uses[f] = s.decorators[d].breaker,
              !.by[f] = d]

\* wrapper f is called at clock reading t and func does `how`: line 399,
\* circuit_breaker.call(func) run to its end
CallWrapper(s, f, how, t) ==
    LET i == s.uses[f]
        r == Route(s.breakers[i], t)
        b == IF ~r.admitted THEN r.b
             ELSE IF how = "returns" THEN OnSuccess(r.b, t)
             ELSE OnFailure(r.b, t)
    IN  [s EXCEPT !.breakers[i] = b,
                  !.calls = @ + 1,
                  !.failed[f] = IF r.admitted /\ how = "raises"
                                THEN @ + 1 ELSE @,
                  !.last = [f |-> f, admitted |-> r.admitted]]

InitDecorated ==
    /\ deco = NoDecorators
    /\ cb = NewCircuitBreaker(1, 1, 1, 1)
    /\ rp = NoRetry
    /\ wr = Unused
    /\ obs = Unused
    /\ ch = Unused
    /\ mon = Unused
    /\ ex = Unused
    /\ probe = Unused
    /\ dep = Unused
    /\ run = Unused
    /\ now = 0
    /\ pc = [c \in Callers |-> "idle"]
    /\ outcome = "none"
    /\ invocations = 0
    /\ rejected = 0
    /\ consecFails = 0
    /\ stayInvoked = 0
    /\ opResult = NoResult
    /\ callResult = NoResult
    /\ aborted = 0

decoFrame == <<breakerVars, rp, wr, obs, ch, mon, ex, probe, dep, run>>

\* with_circuit_breaker(...) is called
Make ==
    /\ Len(deco.decorators) < MaxDecorators
    /\ \E name \in BreakerNames, ft \in 1..2 :
          deco' = MakeDecorator(deco, name, ft, 1)
    /\ UNCHANGED decoFrame

\* a decorator is applied to a function
Apply(f) ==
    /\ deco.uses[f] = 0
    /\ \E d \in 1..Len(deco.decorators) : deco' = ApplyDecorator(deco, d, f)
    /\ UNCHANGED decoFrame

\* wrapper f is called and func returns
WrapperReturns(f) ==
    /\ deco.uses[f] # 0
    /\ deco.calls < MaxCalls
    /\ deco' = CallWrapper(deco, f, "returns", now)
    /\ UNCHANGED decoFrame

\* wrapper f is called and func raises
WrapperRaises(f) ==
    /\ deco.uses[f] # 0
    /\ deco.calls < MaxCalls
    /\ deco' = CallWrapper(deco, f, "raises", now)
    /\ UNCHANGED decoFrame

\* the clock advances
DecoratedTick ==
    /\ now < MaxTime
    /\ now' = now + 1
    /\ UNCHANGED <<cb, pc, outcome, invocations, rejected, consecFails,
                   stayInvoked, opResult, callResult, aborted, rp, extVars>>

NextDecorated ==
    \/ Make
    \/ \E f \in Functions : Apply(f)
    \/ \E f \in Functions : WrapperReturns(f)
    \/ \E f \in Functions : WrapperRaises(f)
    \/ DecoratedTick

SpecDecorated == InitDecorated /\ [][NextDecorated]_vars

\* ============================================== LocalExecutor.cancel
\* SpecCancel: a LocalExecutor runs execute_dag for some executions while
\* cancel() is called on them.  With a metadata service both coroutines
\* suspend at its calls (executor.py lines 107, 127 and 220); without one
\* neither suspends.
MaxExecutions == 2
MaxCancels == 2

Executions == 1..MaxExecutions

PENDING == "pending"
RUNNING == "running"
SUCCESS == "success"
FAILED == "failed"
CANCELLED == "cancelled"
RETRY == "retry"
ExecutionStatus == {PENDING, RUNNING, SUCCESS, FAILED, CANCELLED, RETRY}

\* run.meta       a metadata service was given to the executor
\* run.status[e]  context.status of execution e; run.ended[e]: ended_at set
\* run.known      the execution ids in self.executions
\* run.dag[e]     where execute_dag of e is: "idle" before the call,
\*                "starting" / "updating" in the await of lines 107 / 127
\*                and 140, "done" after it
\* run.cancel     the cancel() under way or finished last: "updating" in
\*                the await of line 220; result is what it returned ("none"
\*                while it has not returned)
NewExecutor(meta) ==
    [ meta    |-> meta,
      status  |-> [e \in Executions |-> PENDING],
      ended   |-> [e \in Executions |-> FALSE],
      known   |-> {},
      dag     |-> [e \in Executions |-> "idle"],
      cancel  |-> [pc |-> "idle", id |-> 0, result |-> "none"],
      cancels |-> 0 ]

\* execute_dag lines 108-147: the tasks are ordered and run; sorted = FALSE
\* when that raises an Exception
ExecuteDagBody(r, e, sorted) ==
    [r EXCEPT !.status[e] = IF sorted THEN SUCCESS ELSE FAILED,
              !.ended[e] = TRUE,
              !.dag[e] = IF r.meta THEN "updating" ELSE "done"]

\* execute_dag lines 102-107
ExecuteDagBegin(r, e, sorted) ==
    LET r1 == [r EXCEPT !.status[e] = RUNNING, !.known = @ \cup {e}]
    IN  IF r1.meta
        THEN [r1 EXCEPT !.dag[e] = "starting"]
        ELSE ExecuteDagBody(r1, e, sorted)

\* execute_dag: update_execution_status returns, then line 133 or 147
ExecuteDagEnd(r, e) == [r EXCEPT !.dag[e] = "done"]

\* cancel(e) lines 213-227, up to its await or its return
CancelEnter(r, e) ==
    IF e \in r.known /\ r.status[e] = RUNNING
    THEN LET r1 == [r EXCEPT !.status[e] = CANCELLED, !.ended[e] = TRUE]
         IN  IF r1.meta
             THEN [r1 EXCEPT !.cancel = [pc |-> "updating", id |-> e,
                                         result |-> "none"]]
             ELSE [r1 EXCEPT !.cancel = [pc |-> "idle", id |-> e,
                                         result |-> "True"]]
    ELSE [r EXCEPT !.cancel = [pc |-> "idle", id |-> e, result |-> "False"]]

\* cancel: update_execution_status returns, then line 226
CancelReturn(r) ==
    [r EXCEPT !.cancel.pc = "idle", !.cancel.result = "True"]

InitCancel ==
    /\ run \in { NewExecutor(meta) : meta \in BOOLEAN }
    /\ cb = NewCircuitBreaker(1, 1, 1, 1)
    /\ rp = NoRetry
    /\ wr = Unused
    /\ obs = Unused
    /\ ch = Unused
    /\ mon = Unused
    /\ ex = Unused
    /\ probe = Unused
    /\ dep = Unused
    /\ deco = Unused
    /\ now = 0
    /\ pc = [c \in Callers |-> "idle"]
    /\ outcome = "none"
    /\ invocations = 0
    /\ rejected = 0
    /\ consecFails = 0
    /\ stayInvoked = 0
    /\ opResult = NoResult
    /\ callResult = NoResult
    /\ aborted = 0

cancelFrame == <<breakerVars, rp, wr, obs, ch, mon, ex, probe, dep, deco>>

\* execute_dag(dag, context of e) is called
DagBegin(e) ==
    /\ run.dag[e] = "idle"
    /\ \E sorted \in BOOLEAN : run' = ExecuteDagBegin(run, e, sorted)
    /\ UNCHANGED cancelFrame

\* start_execution returns and execute_dag runs on
DagResume(e) ==
    /\ run.dag[e] = "starting"
    /\ \E sorted \in BOOLEAN : run' = ExecuteDagBody(run, e, sorted)
    /\ UNCHANGED cancelFrame

\* update_execution_status returns and execute_dag ends
DagEnd(e) ==
    /\ run.dag[e] = "updating"
    /\ run' = ExecuteDagEnd(run, e)
    /\ UNCHANGED cancelFrame

\* cancel(e) is called
CancelBegin(e) ==
    /\ run.cancel.pc = "idle"
    /\ run.cancels < MaxCancels
    /\ run' = [CancelEnter(run, e) EXCEPT !.cancels = @ + 1]
    /\ UNCHANGED cancelFrame

\* update_execution_status returns and cancel ends
CancelEnd ==
    /\ run.cancel.pc = "updating"
    /\ run' = CancelReturn(run)
    /\ UNCHANGED cancelFrame

NextCancel ==
    \/ \E e \in Executions : DagBegin(e)
    \/ \E e \in Executions : DagResume(e)
    \/ \E e \in Executions : DagEnd(e)
    \/ \E e \in Executions : CancelBegin(e)
    \/ CancelEnd

SpecCancel == InitCancel /\ [][NextCancel]_vars

\* ----------------------------------------------------- step vocabulary
BeginStep == \E c \in Callers : CallBegin(c)
SuccessStep == \E c \in Callers : CallSuccess(c)
FailureStep == \E c \in Callers : CallFailure(c)
AbortStep == \E c \in Callers : CallAbort(c)
CallStep == BeginStep \/ SuccessStep \/ FailureStep \/ AbortStep

Last(s) == s[Len(s)]

\* ------------------------------------------------------------------- C1
\* C1: for failure_threshold k >= 1, a step of call() taken while the
\* breaker is CLOSED leaves it CLOSED or moves it to OPEN, and it moves it
\* to OPEN exactly when that step is the completion of the k-th failing
\* operation in a row (a success restarts the run).
C1_OpensExactlyOnKthFailure ==
    [][ (cb.failure_threshold >= 1 /\ cb.state = CLOSED /\ CallStep) =>
          /\ cb'.state \in {CLOSED, OPEN}
          /\ (cb'.state = OPEN) <=>
                (FailureStep /\ consecFails' = cb.failure_threshold) ]_vars

\* failure, success, failure, failure with k = 2: OPEN on the second
\* failure of the second run
C1_Witness ==
    /\ cb.failure_threshold = 2
    /\ cb.state = OPEN
    /\ cb.state_changes = <<OPEN>>
    /\ cb.total_failures = 3
    /\ cb.total_successes = 1
    /\ consecFails = 2

\* ------------------------------------------------------------------- C2
\* C2: a call() that arrives while the breaker is OPEN and less than
\* timeout_seconds after last_failure_time raises CircuitBreakerOpenError,
\* does not invoke the operation and leaves the breaker OPEN.
C2_OpenRejectsBeforeTimeout ==
    [][ \A c \in Callers :
          ( /\ CallBegin(c)
            /\ cb.state = OPEN
            /\ cb.last_failure_time # None
            /\ (now - cb.last_failure_time) < cb.timeout_seconds ) =>
          ( /\ outcome' = "CircuitBreakerOpenError"
            /\ pc'[c] = "idle"
            /\ invocations' = invocations
            /\ cb'.state = OPEN ) ]_vars

\* failure_threshold = 2: two failing calls, the third is rejected and the
\* operation has still been invoked twice
C2_Witness ==
    /\ cb.failure_threshold = 2
    /\ cb.state = OPEN
    /\ cb.total_calls = 3
    /\ cb.total_failures = 2
    /\ invocations = 2
    /\ rejected = 1
    /\ (now - cb.last_failure_time) < cb.timeout_seconds
    /\ outcome = "CircuitBreakerOpenError"

\* ------------------------------------------------------------------- C3
\* C3: with half_open_max_calls >= 1, a call() that arrives while the
\* breaker is OPEN and at least timeout_seconds after last_failure_time
\* moves it to HALF_OPEN with success_count 0 and half_open_calls 1 (reset
\* to 0, then this call counted) and invokes the operation.
C3_TimeoutAdmitsProbe ==
    [][ \A c \in Callers :
          ( /\ CallBegin(c)
            /\ cb.state = OPEN
            /\ cb.last_failure_time # None
            /\ (now - cb.last_failure_time) >= cb.timeout_seconds
            /\ cb.half_open_max_calls >= 1 ) =>
          ( /\ cb'.state = HALF_OPEN
            /\ cb'.success_count = 0
            /\ cb'.half_open_calls = 1
            /\ pc'[c] = "running"
            /\ invocations' = invocations + 1 ) ]_vars

\* second stay in HALF_OPEN, after a first stay that had counted a success
C3_Witness ==
    /\ cb.state = HALF_OPEN
    /\ cb.state_changes = <<OPEN, HALF_OPEN, OPEN, HALF_OPEN>>
    /\ cb.total_successes = 1
    /\ cb.success_count = 0
    /\ cb.half_open_calls = 1
    /\ \E c \in Callers : pc[c] = "running"

\* ------------------------------------------------------------------- C4
\* C4: the failure of an operation that completes while the breaker is
\* HALF_OPEN moves it to OPEN and sets last_failure_time to the time of
\* the failure, whatever failure_threshold and success_count are.
C4_HalfOpenFailureReopens ==
    [][ (FailureStep /\ cb.state = HALF_OPEN) =>
          (cb'.state = OPEN /\ cb'.last_failure_time = now) ]_vars

\* reopened by one failure that followed a half-open success: the failure
\* count is below the threshold
C4_Witness ==
    /\ cb.state = OPEN
    /\ Len(cb.state_changes) >= 3
    /\ cb.failure_count = 1
    /\ cb.failure_threshold = 2
    /\ cb.success_count = 1
    /\ cb.last_failure_time = now
    /\ now > 0
    /\ outcome = "raised"

\* ------------------------------------------------------------------- C5
\* C5: a success in HALF_OPEN that brings success_count to
\* success_threshold moves the breaker to CLOSED, and after that step
\* failure_count and success_count are both 0.
C5_CloseResetsCounters ==
    [][ ( /\ SuccessStep
          /\ cb.state = HALF_OPEN
          /\ cb.success_count + 1 >= cb.success_threshold ) =>
          ( /\ cb'.state = CLOSED
            /\ cb'.failure_count = 0
            /\ cb'.success_count = 0 ) ]_vars

\* ------------------------------------------------------------------- C6
Edges == { <<CLOSED, OPEN>>, <<OPEN, HALF_OPEN>>,
           <<HALF_OPEN, CLOSED>>, <<HALF_OPEN, OPEN>> }

\* every transition recorded during the step, starting from the state the
\* step began in, is an edge of the cycle
RecordedEdgesOK ==
    LET old == Len(cb.state_changes)
        new == cb'.state_changes
    IN  \A i \in (old + 1)..Len(new) :
            <<(IF i = old + 1 THEN cb.state ELSE new[i - 1]), new[i]>> \in Edges

\* C6: every change of state made by a step of call() is one of
\* CLOSED->OPEN, OPEN->HALF_OPEN, HALF_OPEN->CLOSED, HALF_OPEN->OPEN, also
\* the changes made one after the other inside one call().
C6_OnlyCycleEdges ==
    [][ CallStep =>
          /\ (cb'.state # cb.state => <<cb.state, cb'.state>> \in Edges)
          /\ RecordedEdgesOK ]_vars

\* all four edges taken
C6_Witness ==
    cb.state_changes = <<OPEN, HALF_OPEN, CLOSED, OPEN, HALF_OPEN, OPEN>>

\* ------------------------------------------------------------------- C7
\* C7: a call() that arrives while the breaker is HALF_OPEN with
\* half_open_calls >= half_open_max_calls moves it to OPEN, sets
\* last_failure_time to now, raises CircuitBreakerOpenError and does not
\* invoke the operation; otherwise it adds one to half_open_calls and
\* invokes the operation.
C7_HalfOpenLimit ==
    [][ \A c \in Callers :
          (CallBegin(c) /\ cb.state = HALF_OPEN) =>
            IF cb.half_open_calls >= cb.half_open_max_calls
            THEN /\ cb'.state = OPEN
                 /\ cb'.last_failure_time = now
                 /\ outcome' = "CircuitBreakerOpenError"
                 /\ pc'[c] = "idle"
                 /\ invocations' = invocations
            ELSE /\ cb'.half_open_calls = cb.half_open_calls + 1
                 /\ cb'.state = HALF_OPEN
                 /\ pc'[c] = "running"
                 /\ invocations' = invocations + 1 ]_vars

\* one probe admitted, the next call hit the limit and reopened the breaker
C7_Witness ==
    /\ cb.half_open_max_calls = 1
    /\ cb.failure_threshold = 1
    /\ cb.state = OPEN
    /\ cb.state_changes = <<OPEN, HALF_OPEN, OPEN>>
    /\ cb.half_open_calls = 1
    /\ cb.total_failures = 1
    /\ rejected = 1
    /\ cb.last_failure_time = now
    /\ outcome = "CircuitBreakerOpenError"

\* ------------------------------------------------------------------- C8
\* C8: in every reachable state half_open_calls <= half_open_max_calls and
\* the number of operations invoked during the current stay in HALF_OPEN
\* is at most half_open_max_calls.
C8_HalfOpenCallsBounded ==
    /\ cb.half_open_calls <= cb.half_open_max_calls
    /\ stayInvoked <= cb.half_open_max_calls

\* the limit is reached by two interleaved callers
C8_Witness ==
    /\ cb.state = HALF_OPEN
    /\ cb.half_open_max_calls = 2
    /\ cb.half_open_calls = 2
    /\ stayInvoked = 2
    /\ \A c \in {1, 2} : pc[c] = "running"

\* ------------------------------------------------------------------- C9
\* C9: on a step of call() that changes the state, the counter accumulated
\* in the state being left is 0 afterwards: failure_count after
\* CLOSED->OPEN, success_count after HALF_OPEN->OPEN and HALF_OPEN->CLOSED.
C9_LeavingResetsCounter ==
    [][ CallStep =>
          /\ (cb.state = CLOSED /\ cb'.state = OPEN => cb'.failure_count = 0)
          /\ (cb.state = HALF_OPEN /\ cb'.state \in {OPEN, CLOSED}
                => cb'.success_count = 0) ]_vars

\* ------------------------------------------------------------------ C10
\* C10 (as stated): reset() leaves state CLOSED, last_failure_time cleared
\* and failure_count, success_count, half_open_calls, total_calls,
\* total_successes and total_failures all 0.
C10_ResetZeroesEverything ==
    [][ Reset =>
          /\ cb'.state = CLOSED
          /\ cb'.last_failure_time = None
          /\ cb'.failure_count = 0
          /\ cb'.success_count = 0
          /\ cb'.half_open_calls = 0
          /\ cb'.total_calls = 0
          /\ cb'.total_successes = 0
          /\ cb'.total_failures = 0 ]_vars

\* C10 (amended): reset() leaves state CLOSED, last_failure_time cleared
\* and failure_count, success_count and half_open_calls 0; the cumulative
\* metrics total_calls, total_successes, total_failures and state_changes
\* keep their values.
C10_ResetZeroesTransientCounters ==
    [][ Reset =>
          /\ cb'.state = CLOSED
          /\ cb'.last_failure_time = None
          /\ cb'.failure_count = 0
          /\ cb'.success_count = 0
          /\ cb'.half_open_calls = 0
          /\ cb'.total_calls = cb.total_calls
          /\ cb'.total_successes = cb.total_successes
          /\ cb'.total_failures = cb.total_failures
          /\ cb'.state_changes = cb.state_changes ]_vars

\* reset() hit a breaker that was HALF_OPEN with a probe admitted
C10_Witness ==
    /\ cb.state = CLOSED
    /\ Len(cb.state_changes) > 0
    /\ Last(cb.state_changes) = HALF_OPEN
    /\ cb.total_calls >= 2
    /\ cb.total_failures >= 1
    /\ cb.last_failure_time = None
    /\ cb.half_open_calls = 0
    /\ cb.failure_count = 0

InFlight == Cardinality({c \in Callers : pc[c] = "running"})

\* C12 (as stated): whenever no call is in flight,
\* total_calls = total_successes + total_failures + rejected calls.
C12_CompletedCallsAccounted ==
    (\A c \in Callers : pc[c] = "idle") =>
        cb.total_calls = cb.total_successes + cb.total_failures + rejected

\* C12 (amended): every call() adds exactly one to total_calls on entry,
\* rejected or not; a returning operation adds one to total_successes only,
\* an operation raising an Exception adds one to total_failures only, an
\* operation ending with a non-Exception error (cancellation) adds to
\* neither; so total_calls = total_successes + total_failures + rejected
\* calls + such aborted calls + calls in flight.
C12_CallAccounting ==
    /\ [](cb.total_calls = cb.total_successes + cb.total_failures
                             + rejected + aborted + InFlight)
    /\ [][ /\ BeginStep =>
                /\ cb'.total_calls = cb.total_calls + 1
                /\ cb'.total_successes = cb.total_successes
                /\ cb'.total_failures = cb.total_failures
           /\ SuccessStep =>
                /\ cb'.total_calls = cb.total_calls
                /\ cb'.total_successes = cb.total_successes + 1
                /\ cb'.total_failures = cb.total_failures
           /\ FailureStep =>
                /\ cb'.total_calls = cb.total_calls
                /\ cb'.total_successes = cb.total_successes
                /\ cb'.total_failures = cb.total_failures + 1
           /\ AbortStep =>
                /\ cb'.total_calls = cb.total_calls
                /\ cb'.total_successes = cb.total_successes
                /\ cb'.total_failures = cb.total_failures ]_vars

\* one call of each kind has finished
C12_Witness ==
    /\ \A c \in Callers : pc[c] = "idle"
    /\ cb.total_calls = 4
    /\ cb.total_successes = 1
    /\ cb.total_failures = 1
    /\ rejected = 1
    /\ aborted = 1

\* ------------------------------------------------------------------ C20
\* C20: for a breaker built by with_circuit_breaker with
\* failure_threshold >= 1, every call of the wrapped function goes through
\* that one breaker: a call continues from the state the earlier calls
\* left (total_calls grows by one, failure_count is kept), the
\* failure_threshold-th failure in a row opens it, and a call that arrives
\* while it is OPEN before the timeout raises CircuitBreakerOpenError
\* without invoking the function.
C20_DecoratorSharesBreaker ==
    [][ (Decorated(cb) /\ cb.failure_threshold >= 1) =>
          /\ \A c \in Callers : CallBegin(c) =>
                /\ cb'.total_calls = cb.total_calls + 1
                /\ cb'.failure_count = cb.failure_count
                /\ cb'.state_changes # << >> \/ cb.state_changes = << >>
                /\ ( /\ cb.state = OPEN
                     /\ (now - cb.last_failure_time) < cb.timeout_seconds ) =>
                        /\ callResult' = Raised("CircuitBreakerOpenError")
                        /\ invocations' = invocations
                        /\ cb'.state = OPEN
          /\ ( /\ FailureStep
               /\ cb.state = CLOSED
               /\ consecFails' = cb.failure_threshold ) => cb'.state = OPEN ]_vars

\* with_circuit_breaker(failure_threshold=2): two failing calls, then a
\* rejected third one; the function ran twice
C20_Witness ==
    /\ Decorated(cb)
    /\ cb.failure_threshold = 2
    /\ cb.state = OPEN
    /\ cb.total_calls = 3
    /\ cb.total_failures = 2
    /\ invocations = 2
    /\ rejected = 1
    /\ aborted = 0
    /\ callResult = Raised("CircuitBreakerOpenError")

\* ----------------------------------------------- retry step vocabulary
\* the error class k is matched by the except clause of configuration r
Matches(r, k) == \E cls \in r.retryable_exceptions : IsInstance(k, cls)

\* the step in which the operation raised an error of a retryable class
RetryableFailureStep ==
    /\ RetryRaises
    /\ Matches(rp, rp'.opLast.what.kind)

\* the step in which the operation raised an error of another class
OtherFailureStep ==
    /\ RetryRaises
    /\ ~Matches(rp, rp'.opLast.what.kind)

\* ------------------------------------------------------------------ C13
\* C13: for max_attempts m >= 1, while fewer than m invocations have
\* failed, all with retryable errors, execute() goes on to another attempt;
\* and when the operation returns after j failures, execute() returns that
\* value, after exactly j + 1 invocations, and invokes nothing more.
C13_SuccessAfterRetryableFailures ==
    [][ rp.max_attempts >= 1 =>
          /\ ( /\ RetryableFailureStep
               /\ rp'.allRetryable
               /\ rp'.opFailures < rp.max_attempts ) => rp'.pc = "sleeping"
          /\ RetryReturns =>
                /\ rp'.pc = "done"
                /\ rp'.result = rp'.opLast
                /\ rp'.result.how = "returned"
                /\ rp'.invocations = rp.opFailures + 1
          /\ rp.pc = "done" => rp'.invocations = rp.invocations ]_vars

\* ------------------------------------------------------------------ C14
\* C14: when the operation raises an error whose class the except clause
\* does not match, execute() ends in that step raising that very error,
\* without a delay and without another invocation.
C14_NonRetryablePropagatesAtOnce ==
    [][ /\ OtherFailureStep =>
            /\ rp'.pc = "done"
            /\ rp'.result = rp'.opLast
            /\ rp'.sleeps = rp.sleeps
            /\ rp'.invocations = rp.invocations
        /\ rp.pc = "done" => rp'.invocations = rp.invocations ]_vars

\* retryable_exceptions = (ValueError,), max_attempts = 3: a TypeError on
\* the first attempt ends the run after one invocation
C14_Witness ==
    /\ rp.pc = "done"
    /\ rp.retryable_exceptions = {"ValueError"}
    /\ rp.max_attempts = 3
    /\ rp.invocations = 1
    /\ rp.sleeps = << >>
    /\ rp.result.how = "raised"
    /\ rp.result.what = Error("TypeError", 1)

\* ------------------------------------------------------------------ C15
\* C15: for max_attempts m >= 1, an execute() that ended (not by
\* cancellation) after the operation failed with a retryable error on
\* every attempt has invoked it exactly m times, slept exactly m - 1 times
\* and raised the error of the last attempt.
C15_ExhaustionRaisesLastError ==
    ( /\ rp.pc = "done"
      /\ rp.max_attempts >= 1
      /\ ~rp.sleepCancelled
      /\ rp.allRetryable
      /\ rp.opFailures = rp.invocations ) =>
        /\ rp.invocations = rp.max_attempts
        /\ Len(rp.sleeps) = rp.max_attempts - 1
        /\ rp.result = rp.opLast

\* ------------------------------------------------------------------ C16
\* C16: an execute() that ended (not by cancellation) made at most
\* max_attempts invocations and ended either returning the operation's
\* result or raising an error that the operation raised.
C16_EndsWithOperationOutcome ==
    (rp.pc = "done" /\ ~rp.sleepCancelled) =>
        /\ rp.invocations <= rp.max_attempts
        /\ rp.result.how = rp.opLast.how
        /\ rp.result = rp.opLast

\* ------------------------------------------------------------------ C17
\* C17: execute() never runs to its end with a RetryConfig whose
\* max_attempts is below 1 (such a config is rejected when it is built).
C17_InvalidConfigNeverRuns ==
    rp.pc = "done" => rp.max_attempts >= 1

\* ------------------------------------------------------------------ C18
\* C18: with jitter disabled, the delay computed after a retryable failure
\* of attempt a (a < max_attempts - 1) is
\* min(initial_delay * exponential_base^a, max_delay): it is at most
\* max_delay and, for exponential_base >= 1, not below the previous delay.
C18_DelayIsCappedExponential ==
    [][ ( /\ RetryableFailureStep
          /\ ~rp.jitter
          /\ rp.attempt < rp.max_attempts - 1 ) =>
          /\ rp'.pc = "sleeping"
          /\ Len(rp'.sleeps) = Len(rp.sleeps) + 1
          /\ Last(rp'.sleeps) =
                Min(rp.initial_delay * Pow(rp.exponential_base, rp.attempt),
                    rp.max_delay)
          /\ Last(rp'.sleeps) <= rp.max_delay
          /\ (rp.exponential_base >= 1 /\ rp.sleeps # << >>) =>
                Last(rp'.sleeps) >= Last(rp.sleeps) ]_vars

\* ------------------------------------------------------------------ C19
\* C19: when execute() is cancelled during the delay between two attempts
\* it ends in that step raising CancelledError, and the operation is not
\* invoked again.
C19_CancelledDelayStopsLoop ==
    [][ /\ RetrySleepCancelled =>
            /\ rp'.pc = "done"
            /\ rp'.result.how = "raised"
            /\ rp'.result.what.kind = "CancelledError"
            /\ rp'.invocations = rp.invocations
        /\ rp.pc = "done" =>
            /\ rp'.invocations = rp.invocations
            /\ rp'.result = rp.result ]_vars

\* cancelled in the first delay of a run with three attempts
C19_Witness ==
    /\ rp.pc = "done"
    /\ rp.sleepCancelled
    /\ rp.max_attempts = 3
    /\ rp.invocations = 1
    /\ Len(rp.sleeps) = 1
    /\ rp.last_exception = Error("ValueError", 1)
    /\ rp.result.how = "raised"
    /\ rp.result.what = Error("CancelledError", 0)

\* ------------------------------------------------------------------ C21
\* the part of an execute() frame that is the RetryConfig
ConfigOf(r) ==
    [ max_attempts         |-> r.max_attempts,
      initial_delay        |-> r.initial_delay,
      max_delay            |-> r.max_delay,
      exponential_base     |-> r.exponential_base,
      jitter               |-> r.jitter,
      retryable_exceptions |-> r.retryable_exceptions ]

\* a step of call i of the wrapped function
WrapStep(i) ==
    \/ WrapCall(i)
    \/ WrapInvoke(i)
    \/ WrapFallThrough(i)
    \/ WrapReturns(i)
    \/ WrapRaises(i)
    \/ WrapSleepDone(i)
    \/ WrapSleepCancelled(i)

\* C21: every call of a function wrapped by with_retry starts its own
\* retry sequence at attempt 0 with no invocation made, no delay slept and
\* the max_attempts of the decorator; a step of one call leaves the
\* sequence of every other call (sequential or concurrent) as it is; a
\* delay is computed from the call's own attempt counter; and no step
\* changes the config of a run or the arguments held by the decorator.
C21_CallsAreIndependent ==
    [][ \A i \in WrapperCalls :
          /\ WrapCall(i) =>
                /\ wr'.calls[i].pc = "ready"
                /\ wr'.calls[i].attempt = 0
                /\ wr'.calls[i].invocations = 0
                /\ wr'.calls[i].sleeps = << >>
                /\ wr'.calls[i].max_attempts = wr.args.max_attempts
                /\ ConfigOf(wr'.calls[i]) = WrapperConfig(wr.args)
          /\ WrapStep(i) =>
                \A j \in WrapperCalls \ {i} : wr'.calls[j] = wr.calls[j]
          /\ (WrapInvoke(i) /\ wr.calls[i].max_attempts >= 1) =>
                wr.calls[i].invocations = wr.calls[i].attempt
          /\ (WrapRaises(i) /\ wr'.calls[i].pc = "sleeping") =>
                \E h \in {NoJitter} :
                   Last(wr'.calls[i].sleeps) =
                      CalculateDelay(ConfigOf(wr.calls[i]),
                                     wr.calls[i].invocations - 1, h).delay
          /\ wr.calls[i].pc # "notcalled" =>
                ConfigOf(wr'.calls[i]) = ConfigOf(wr.calls[i])
          /\ wr'.args = wr.args ]_vars

\* max_attempts = 2: the first call used both attempts and ended, the
\* second call has failed once and sleeps before its own second attempt
C21_Witness ==
    /\ wr.args.max_attempts = 2
    /\ wr.calls[1].pc = "done"
    /\ wr.calls[1].invocations = 2
    /\ wr.calls[1].result.how = "raised"
    /\ wr.calls[2].pc = "sleeping"
    /\ wr.calls[2].attempt = 0
    /\ wr.calls[2].invocations = 1
    /\ Len(wr.calls[2].sleeps) = 1

\* ------------------------------------------------------------------ C22
\* the entries appended to state_changes by the step
Recorded ==
    SubSeq(cb'.state_changes, Len(cb.state_changes) + 1, Len(cb'.state_changes))

\* every change of state made by the step is recorded once: the entries
\* appended lead from the state before the step to the state after it and
\* no entry repeats the state it was appended in
RecordedOnce ==
    /\ Len(cb'.state_changes) >= Len(cb.state_changes)
    /\ SubSeq(cb'.state_changes, 1, Len(cb.state_changes)) = cb.state_changes
    /\ \A k \in 1..Len(Recorded) :
          Recorded[k] # (IF k = 1 THEN cb.state ELSE Recorded[k - 1])
    /\ cb'.state = (IF Recorded = << >> THEN cb.state ELSE Last(Recorded))

\* C22 (as stated): with interleaved call()s, in every reachable state
\* total_calls = total_successes + total_failures + rejected calls + calls
\* in flight, and every change of state made by a step of call() is
\* recorded exactly once in state_changes.
C22_InterleavedCallsAccounted ==
    /\ [](cb.total_calls = cb.total_successes + cb.total_failures
                             + rejected + InFlight)
    /\ [][CallStep => RecordedOnce]_vars

\* C22 (amended): with interleaved call()s, in every reachable state
\* total_calls = total_successes + total_failures + rejected calls + calls
\* whose operation ended with a non-Exception error (cancellation) + calls
\* in flight; every change of state made by a step of call() is recorded
\* exactly once in state_changes, a completion records at most one entry,
\* and reset() and the clock record none.
C22_InterleavedCallsConsistent ==
    /\ [](cb.total_calls = cb.total_successes + cb.total_failures
                             + rejected + aborted + InFlight)
    /\ [][ /\ CallStep => RecordedOnce
           /\ (SuccessStep \/ FailureStep \/ AbortStep) => Len(Recorded) <= 1
           /\ (Reset \/ Tick) => Recorded = << >> ]_vars

\* failure_threshold = 1, two operations in flight at once: one was
\* cancelled, the caller came back, its failure opened the breaker, and
\* the failure of the other operation arrived while it was already OPEN
C22_Witness ==
    /\ cb.failure_threshold = 1
    /\ cb.state = OPEN
    /\ cb.state_changes = <<OPEN>>
    /\ cb.total_calls = 3
    /\ cb.total_failures = 2
    /\ cb.failure_count = 2
    /\ aborted = 1
    /\ rejected = 0
    /\ InFlight = 0

\* ------------------------------------------------------------------ C23
\* the attempt made by the step was turned away by the breaker
AttemptRejected == GuardedInvoke /\ rejected' = rejected + 1

\* the attempt made by the step failed: call() raised an Exception into
\* execute()
AttemptFailed == GuardedRaises \/ AttemptRejected

\* C23 (as stated): with execute() around breaker.call(op), every failed
\* attempt adds one to the breaker's total_failures and failure_count, a
\* successful attempt leaves failure_count 0, and a success after fewer
\* than failure_threshold failed attempts makes execute() return the value
\* with the breaker CLOSED.
C23_EveryFailedAttemptCounts ==
    [][ /\ AttemptFailed =>
              /\ cb'.total_failures = cb.total_failures + 1
              /\ cb'.failure_count = cb.failure_count + 1
        /\ GuardedReturns =>
              /\ cb'.failure_count = 0
              /\ rp.opFailures < cb.failure_threshold =>
                    /\ rp'.pc = "done"
                    /\ rp'.result.how = "returned"
                    /\ cb'.state = CLOSED ]_vars

\* C23 (amended): with execute() around breaker.call(op), every attempt
\* whose operation raised an Exception adds one to the breaker's
\* total_failures and failure_count; an attempt the breaker rejected with
\* CircuitBreakerOpenError, or whose operation ended with a non-Exception
\* error, adds nothing to them; a successful attempt leaves failure_count
\* 0; and a success after fewer than failure_threshold failed attempts
\* makes execute() return that value with the breaker CLOSED.
C23_OperationFailuresCount ==
    [][ /\ GuardedRaises =>
              /\ rp'.opFailures = rp.opFailures + 1
              /\ cb'.total_failures = cb.total_failures + 1
              /\ cb'.failure_count = cb.failure_count + 1
        /\ (AttemptRejected \/ GuardedAborts) =>
              /\ rp'.opFailures = rp.opFailures + 1
              /\ cb'.total_failures = cb.total_failures
              /\ cb'.failure_count = cb.failure_count
        /\ GuardedReturns =>
              /\ cb'.failure_count = 0
              /\ rp'.result = rp'.opLast
              /\ rp.opFailures < cb.failure_threshold =>
                    /\ rp'.pc = "done"
                    /\ rp'.result.how = "returned"
                    /\ cb'.state = CLOSED
                    /\ cb'.state_changes = << >> ]_vars

\* failure_threshold = 3, max_attempts = 3: two failures, then the value;
\* the breaker has counted both and is CLOSED with failure_count 0
C23_Witness ==
    /\ cb.failure_threshold = 3
    /\ rp.max_attempts = 3
    /\ rp.pc = "done"
    /\ rp.result.how = "returned"
    /\ rp.invocations = 3
    /\ rp.opFailures = 2
    /\ cb.total_failures = 2
    /\ cb.total_successes = 1
    /\ cb.failure_count = 0
    /\ cb.state = CLOSED

\* ------------------------------------------------------------------ C24
\* the step is a call of get_state() / of get_metrics()
StateRead == obs'.by = "get_state" /\ ObserveState
MetricsRead == obs'.by = "get_metrics" /\ ObserveMetrics

\* C24: get_state(), get_metrics() and the passage of time leave every
\* field of the breaker as it is, so a field changes only in a step of
\* call() or in reset(); get_state() returns the state field as it
\* stands: for a breaker that is OPEN with its timeout elapsed it returns
\* OPEN and leaves the breaker OPEN.
C24_OnlyCallAndResetMutate ==
    [][ /\ (StateRead \/ MetricsRead \/ Tick) => cb' = cb
        /\ cb' # cb => (CallStep \/ Reset)
        /\ StateRead =>
              /\ obs'.value = cb.state
              /\ (cb.state = OPEN /\ ShouldAttemptReset(cb, now)) =>
                    (obs'.value = OPEN /\ cb'.state = OPEN)
        /\ MetricsRead =>
              /\ obs'.value.state = cb.state
              /\ obs'.value.total_calls = cb.total_calls ]_vars

\* the timeout of an OPEN breaker has elapsed and get_state() has just
\* answered OPEN
C24_Witness ==
    /\ cb.state = OPEN
    /\ cb.state_changes = <<OPEN>>
    /\ cb.last_failure_time # None
    /\ now - cb.last_failure_time >= cb.timeout_seconds
    /\ obs.by = "get_state"
    /\ obs.value = OPEN

\* ------------------------------------------------------------------ C25
\* the step made the breaker enter OPEN (through HALF_OPEN included)
EntersOpen == Recorded # << >> /\ Last(Recorded) = OPEN

\* C25: a step writes last_failure_time only by entering OPEN (the time of
\* the step) or by reset() (cleared), and every entry into OPEN writes
\* it; so an OPEN breaker holds the time of its latest entry into OPEN,
\* which is not in the future; and an operation that completes, with
\* success or failure, while the breaker is OPEN changes neither state
\* nor last_failure_time.
C25_StampedOnlyOnOpening ==
    /\ [](cb.state = OPEN =>
             (cb.last_failure_time # None /\ cb.last_failure_time <= now))
    /\ [][ /\ cb'.last_failure_time # cb.last_failure_time =>
                 \/ EntersOpen /\ cb'.last_failure_time = now
                 \/ Reset /\ cb'.last_failure_time = None
           /\ EntersOpen => cb'.last_failure_time = now
           /\ ((SuccessStep \/ FailureStep \/ AbortStep) /\ cb.state = OPEN) =>
                 /\ cb'.state = OPEN
                 /\ cb'.last_failure_time = cb.last_failure_time
                 /\ Recorded = << >> ]_vars

\* failure_threshold = 1, two operations in flight: the first failure
\* opened the breaker at time 0, the second one arrived at a later time
\* and found it OPEN; the stamp is still 0
C25_Witness ==
    /\ cb.failure_threshold = 1
    /\ cb.state = OPEN
    /\ cb.state_changes = <<OPEN>>
    /\ cb.total_failures = 2
    /\ cb.total_calls = 2
    /\ cb.last_failure_time = 0
    /\ now = 2
    /\ outcome = "raised"
    /\ InFlight = 0

\* ------------------------------------------------------------------ C26
\* the status of the result the step applied (the newest history entry)
AppliedStatus == Last(ch'.check_history)

\* C26: an update from a HEALTHY result leaves current_status HEALTHY and
\* consecutive_failures 0; an update from any other result leaves
\* consecutive_successes 0, consecutive_failures one higher, and
\* current_status DEGRADED while consecutive_failures < 5, UNHEALTHY from 5
\* on; and in every state total_checks = total_successes + total_failures
\* and at most one of the two consecutive counters is non-zero.
C26_StatusFollowsResult ==
    /\ [](/\ ch.total_checks = ch.total_successes + ch.total_failures
          /\ (ch.consecutive_failures = 0 \/ ch.consecutive_successes = 0))
    /\ [][ /\ ch'.total_checks = ch.total_checks + 1
           /\ AppliedStatus = HEALTHY =>
                 /\ ch'.current_status = HEALTHY
                 /\ ch'.consecutive_failures = 0
                 /\ ch'.consecutive_successes = ch.consecutive_successes + 1
                 /\ ch'.total_successes = ch.total_successes + 1
           /\ AppliedStatus # HEALTHY =>
                 /\ ch'.consecutive_successes = 0
                 /\ ch'.consecutive_failures = ch.consecutive_failures + 1
                 /\ ch'.total_failures = ch.total_failures + 1
                 /\ ch'.current_status =
                       (IF ch'.consecutive_failures < 5
                        THEN DEGRADED ELSE UNHEALTHY) ]_vars

\* five failed checks in a row made the connector UNHEALTHY, the sixth
\* check succeeded
C26_Witness ==
    /\ ch.total_checks = 6
    /\ ch.total_failures = 5
    /\ ch.total_successes = 1
    /\ ch.current_status = HEALTHY
    /\ ch.consecutive_failures = 0
    /\ ch.consecutive_successes = 1
    /\ ch.check_history = <<UNHEALTHY, UNHEALTHY, UNHEALTHY, UNHEALTHY,
                            UNHEALTHY, HEALTHY>>

\* ------------------------------------------------------------------ C27
\* C27: a connector whose last unhealthy_threshold (or more) checks failed
\* is UNHEALTHY, and one whose last healthy_threshold (or more) checks
\* succeeded is HEALTHY.
C27_ThresholdsDecideStatus ==
    /\ ch.consecutive_failures >= ch.unhealthy_threshold =>
          ch.current_status = UNHEALTHY
    /\ ch.consecutive_successes >= ch.healthy_threshold =>
          ch.current_status = HEALTHY

\* ------------------------------------------------------------------ C28
\* C28: whenever no stop() is in progress (start() has no await), at most
\* one loop task is alive and is_running is TRUE exactly when
\* monitoring_task is set.
C28_AtMostOneLoop ==
    (\A o \in Operators : mon.awaiting[o] = None) =>
        /\ Cardinality(LiveLoops(mon)) <= 1
        /\ mon.is_running <=> (mon.monitoring_task # None)

\* ------------------------------------------------------------------ C29
\* C29: with jitter enabled, the delay computed after a retryable failure
\* of attempt a (a < max_attempts - 1) is c times a factor in [0.5, 1.5],
\* c = min(initial_delay * exponential_base^a, max_delay): it lies in
\* [0.5 * c, 1.5 * c] and is at most 1.5 * max_delay.
C29_JitteredDelayInBand ==
    [][ ( /\ RetryableFailureStep
          /\ rp.jitter
          /\ rp.attempt < rp.max_attempts - 1 ) =>
          LET c == Min(rp.initial_delay * Pow(rp.exponential_base, rp.attempt),
                       rp.max_delay)
          IN  /\ rp'.pc = "sleeping"
              /\ Len(rp'.sleeps) = Len(rp.sleeps) + 1
              /\ 2 * Last(rp'.sleeps) >= c
              /\ 2 * Last(rp'.sleeps) <= 3 * c
              /\ 2 * Last(rp'.sleeps) <= 3 * rp.max_delay ]_vars

\* ------------------------------------------------------------------ C30
\* the position of task t in the order s
PositionIn(s, t) == CHOOSE i \in 1..Len(s) : s[i] = t

\* C30: the order returned for an acyclic dag holds every task exactly
\* once and every task comes after each task it depends on.
C30_OrderRespectsDependencies ==
    ex.pc = "done" =>
        /\ Len(ex.order) = Len(ex.dag)
        /\ \A i \in 1..Len(ex.dag) : \E k \in 1..Len(ex.order) :
               ex.order[k] = ex.dag[i][1]
        /\ \A i \in 1..Len(ex.dag) : \A k \in 1..Len(ex.dag[i][2]) :
               PositionIn(ex.order, ex.dag[i][2][k])
                   < PositionIn(ex.order, ex.dag[i][1])

\* ------------------------------------------------------------------ C31
\* c's operation succeeds while the breaker is HALF_OPEN
SucceedsInStay(c) == ProbeSuccess(c) /\ cb.state = HALF_OPEN

\* C31 (as stated): the breaker leaves HALF_OPEN for CLOSED only once
\* success_threshold operations admitted during that stay have succeeded,
\* and the success of an operation admitted before the stay leaves
\* success_count as it is.
C31_OnlyProbesOfTheStayCount ==
    [][ \A c \in Callers :
          SucceedsInStay(c) =>
            /\ (cb'.state = CLOSED => probe'.fresh >= cb.success_threshold)
            /\ (probe.admitted[c] # StayOf(cb) =>
                  cb'.success_count = cb.success_count) ]_vars

\* C31 (amended): the breaker goes from another state to CLOSED only from
\* HALF_OPEN, by the success of an operation, once success_threshold
\* operations have succeeded during that stay; every operation that
\* succeeds while the breaker is HALF_OPEN adds one to success_count,
\* whether it was admitted during that stay or before it.
C31_SuccessesDuringTheStayCount ==
    [][ /\ \A c \in Callers :
             SucceedsInStay(c) =>
               /\ cb'.success_count = cb.success_count + 1
               /\ cb'.success_count = probe'.fresh + probe'.stale
               /\ (cb'.state = CLOSED <=>
                     probe'.fresh + probe'.stale >= cb.success_threshold)
        /\ (cb.state # CLOSED /\ cb'.state = CLOSED) =>
              /\ cb.state = HALF_OPEN
              /\ \E c \in Callers : ProbeSuccess(c)
              /\ probe'.fresh + probe'.stale = cb.success_threshold ]_vars

\* the breaker was closed with the help of an operation admitted before
\* the stay
C31_Witness ==
    /\ cb.state = CLOSED
    /\ cb.state_changes # << >>
    /\ Last(cb.state_changes) = CLOSED
    /\ probe.stale >= 1
    /\ probe.fresh + probe.stale = cb.success_threshold

\* ------------------------------------------------------------------ C32
\* the breaker has opened at some time (nothing but reset() clears
\* last_failure_time, and SpecLive has no reset())
HasOpened == cb.last_failure_time # None

\* no stay in HALF_OPEN can collect success_threshold successes
TooFewProbes == cb.half_open_max_calls < cb.success_threshold

\* C32 (as stated): with half_open_max_calls < success_threshold a breaker
\* that has opened is never CLOSED again by call(); with half_open_max_calls
\* >= success_threshold and every operation succeeding it is eventually
\* CLOSED.
C32_ClosesIffEnoughProbes ==
    /\ [](TooFewProbes /\ HasOpened => cb.state # CLOSED)
    /\ ((dep.up /\ ~TooFewProbes) ~> (cb.state = CLOSED))

\* C32 (amended): the same, for calls that do not overlap.
C32_ClosesIffEnoughProbesInTurn ==
    /\ [](~dep.overlapped /\ TooFewProbes /\ HasOpened => cb.state # CLOSED)
    /\ ([](~dep.overlapped) =>
          ((dep.up /\ ~TooFewProbes) ~> (cb.state = CLOSED)))

\* a breaker that had opened is CLOSED again after calls made in turn
C32_Witness ==
    /\ ~dep.overlapped
    /\ dep.up
    /\ HasOpened
    /\ cb.state = CLOSED
    /\ cb.success_count = 2

\* ------------------------------------------------------------------ C33
\* C33: state_changes records every change of state: when it is not empty
\* its last entry is the current state, and no two entries in a row name
\* the same state.
C33_LogTracksState ==
    /\ cb.state_changes # << >> => Last(cb.state_changes) = cb.state
    /\ \A i \in 1..(Len(cb.state_changes) - 1) :
          cb.state_changes[i] # cb.state_changes[i + 1]

\* ------------------------------------------------------------------ C34
\* C34: for failure_threshold >= 1 a CLOSED breaker always has
\* failure_count < failure_threshold; in every state a failed operation
\* adds one to failure_count, whatever the threshold, and only a success
\* or reset() brings it back to 0.
C34_ClosedBelowThreshold ==
    /\ [](cb.failure_threshold >= 1 /\ cb.state = CLOSED =>
             cb.failure_count < cb.failure_threshold)
    /\ [][ /\ FailureStep => cb'.failure_count = cb.failure_count + 1
           /\ (SuccessStep \/ Reset) => cb'.failure_count = 0
           /\ cb'.failure_count < cb.failure_count => (SuccessStep \/ Reset)
       ]_vars

\* failed probes have taken failure_count beyond the threshold
C34_Witness ==
    /\ cb.failure_threshold >= 1
    /\ cb.state # CLOSED
    /\ cb.failure_count > cb.failure_threshold
    /\ outcome = "raised"

\* ------------------------------------------------------------------ C35
\* C35: execute() with the default except clause around breaker.call(op),
\* op failing whenever it is invoked, the breaker CLOSED at the start with
\* failure_threshold k < max_attempts m, the timeout not reached during
\* the run: op has been invoked exactly k times, call() m times, and
\* execute() raises CircuitBreakerOpenError.
C35_RejectionsAreRetried ==
    ( /\ rp.pc = "done"
      /\ ~rp.sleepCancelled
      /\ aborted = 0
      /\ rp.retryable_exceptions = {"Exception"}
      /\ cb.total_successes = 0
      /\ cb.failure_threshold < rp.max_attempts
      /\ now < cb.timeout_seconds ) =>
        /\ invocations = cb.failure_threshold
        /\ cb.total_calls = rp.max_attempts
        /\ rp.result = Raised(Error("CircuitBreakerOpenError", rp.invocations))

\* ------------------------------------------------------------------ C36
\* C36: a RetryConfig built without retryable_exceptions, or with an empty
\* one, retries every kind of Exception, so that an operation that fails
\* on every attempt is invoked max_attempts times; with a non-empty one a
\* failure is followed by a delay only if its kind is listed or derives
\* from a listed kind.
C36_EmptyMeansEveryKind ==
    /\ \A re \in {Omitted, Given({})} :
          NewRetryConfig(1, 2, 6, 2, FALSE, re).retryable_exceptions
             = {"Exception"}
    /\ ( /\ rp.pc = "done"
         /\ rp.max_attempts >= 1
         /\ ~rp.sleepCancelled
         /\ rp.retryable_exceptions = {"Exception"}
         /\ rp.opFailures = rp.invocations
         /\ rp.opLast.how = "raised"
         /\ rp.opLast.what.kind \in OpErrorKinds ) =>
            rp.invocations = rp.max_attempts
    /\ ( /\ rp.pc = "sleeping"
         /\ rp.retryable_exceptions # {"Exception"} ) =>
            \E cls \in rp.retryable_exceptions :
               IsInstance(rp.opLast.what.kind, cls)

\* ------------------------------------------------------------------ C37
\* wrapper f is called
WrapperCalled(f) == WrapperReturns(f) \/ WrapperRaises(f)

\* C37: one breaker is built by each call of with_circuit_breaker(...) and
\* none when a decorator is applied; two decorated functions use the same
\* breaker exactly if the same decorator was applied to them, whatever the
\* names; a call of a wrapper changes no other breaker than its own, and
\* the failure that opens it leaves the circuit open for every function
\* of the same decorator: the next call of any of them is rejected.
C37_BreakerPerDecoratorCall ==
    /\ [](/\ Len(deco.breakers) = Len(deco.decorators)
          /\ \A f, g \in Functions :
                (deco.uses[f] # 0 /\ deco.uses[g] # 0) =>
                   (deco.uses[f] = deco.uses[g] <=> deco.by[f] = deco.by[g]))
    /\ [][ \A f \in Functions :
             WrapperCalled(f) =>
               /\ \A i \in 1..Len(deco.breakers) :
                     i # deco.uses[f] => deco'.breakers[i] = deco.breakers[i]
               /\ \A g \in Functions :
                     ( /\ deco.by[g] = deco.by[f]
                       /\ deco.breakers[deco.uses[f]].state = CLOSED
                       /\ deco'.breakers[deco.uses[f]].state = OPEN ) =>
                        ~Route(deco'.breakers[deco'.uses[g]], now).admitted
           ]_vars

\* f and g come from one decorator, only f has ever failed, and a call of
\* g has just been rejected
C37_Witness ==
    /\ deco.by["f"] # 0
    /\ deco.by["f"] = deco.by["g"]
    /\ Len(deco.decorators) = 2
    /\ deco.last = [f |-> "g", admitted |-> FALSE]
    /\ deco.failed = [h \in Functions |-> IF h = "f" THEN 2 ELSE 0]
    /\ deco.breakers[deco.uses["g"]].failure_threshold = 2
    /\ deco.breakers[deco.uses["g"]].total_calls = 3

\* ------------------------------------------------------------------ C38
\* C38: cancel(e) sets the status to CANCELLED and returns True exactly
\* when e is a known execution that is RUNNING, and otherwise returns
\* False and changes nothing; the status of an execution that is
\* CANCELLED never changes again, whatever execute_dag does.
C38_CancelledIsFinal ==
    [][ /\ \A e \in Executions :
             CancelBegin(e) =>
               IF e \in run.known /\ run.status[e] = RUNNING
               THEN /\ run'.status[e] = CANCELLED
                    /\ run'.cancel.result \in {"True", "none"}
               ELSE /\ run'.cancel.result = "False"
                    /\ run'.status = run.status
                    /\ run'.ended = run.ended
        /\ CancelEnd =>
              /\ run'.cancel.result = "True"
              /\ run'.status[run.cancel.id] = CANCELLED
        /\ \A e \in Executions :
              run.status[e] = CANCELLED => run'.status[e] = CANCELLED ]_vars

====
